---- MODULE Spec2Model ----
(***************************************************************************)
(* Dash-Stats synchronization engine (server/dashService.ts, the routes    *)
(* that call it): block cache, forward sync, historical backfill, the bulk *)
(* import route and the subsidy schedule.                                  *)
(*                                                                         *)
(* Numbers that the code keeps as floating point (fees, subsidy, reward)   *)
(* are exact rationals <<numerator, denominator>> in lowest terms.         *)
(* An "await" of the code is a step boundary: one action runs from one     *)
(* await that yields to the event loop to the next; the inserts that       *)
(* follow the fetches of one batch belong to the step of the batch.        *)
(***************************************************************************)
EXTENDS Integers, Sequences, FiniteSets, TLC

VARIABLES
    blocks,            \* table core_block_fees: a set of rows
    syncState,         \* table sync_state: key -> string value, <<>> when absent
    backfillRunning,   \* dashService.ts:14
    backfillProgress,  \* dashService.ts:15
    rpcAvailable,      \* dashService.ts:16  ("true", "false" or NULL)
    bf,                \* startCoreBackfill: locals of each call in progress
    fs,                \* syncNewCoreBlocks: locals of each call in progress
    tip,               \* height of the live chain
    env,               \* what the process runs in: RPC credentials, clock, chain
    budget,            \* what is left of the bounded environment events
    io,                \* what the last step did: fetches issued, inserts made
    killed,            \* what the last process kill interrupted
    sub,               \* getBlockSubsidy under test: heights and results
    platformEpochFees, \* table platform_epoch_fees: set of rows
    es,                \* calls of syncAllPlatformEpochs in progress
    platform,          \* what the platform explorer reports: current epoch, epochs
    seed,              \* seedAndBackfill: where the startup loop stands
    cachedMnCounts,    \* dashService.ts:187
    clock              \* Date.now(), in milliseconds since the process started

epochVars == <<platformEpochFees, es, platform>>

mnVars == <<cachedMnCounts, clock>>

vars == <<blocks, syncState, backfillRunning, backfillProgress, rpcAvailable,
          bf, fs, tip, env, budget, io, killed, sub, epochVars, mnVars, seed>>

NULL == "null"

-----------------------------------------------------------------------------
(* Program constants *)

SATOSHIS_PER_DASH == 100000000
JAN_1_2026_UNIX == 1767225600
nSubsidyBase == 5
reductionInterval == 210240
superblockCycle == 16616
SecondsPerBlock == 150
FallbackTarget == 2396800
SeedFetch == 20
ForwardCap == 50
SyncBatchRpc == 10
SyncBatchPublic == 2
BackfillBatchRpc == 20
BackfillBatchPublic == 2
BackoffRpc == 2000
BackoffPublic == 15000
BackoffCap == 6
CheckpointEvery == 200
SeedAttempts == 20
EpochDelay == 200
MN_COUNT_CACHE_MS == 300000
DefaultMasternodes == 3700
DefaultEvoNodes == 334

-----------------------------------------------------------------------------
(* Bounds of the model *)

MaxEvents == 1          \* environment events of a run: a failed fetch, insert or
                        \* store call, a fully failed batch, a kill, an import,
                        \* a chain advance, a timer tick
MaxCalls == 2           \* calls of startCoreBackfill and syncNewCoreBlocks
BackoffStalls == 7      \* fully failed batches where only the backoff is studied
MaxConsecutive == 7     \* where the failure counter saturates when fully failed
                        \* batches are not counted
LongWalk == 205         \* heights of the long walk
MaxEra == 5             \* subsidy reductions computed
MaxEpoch == 2           \* platform epochs beyond epoch 0

-----------------------------------------------------------------------------
(* Arithmetic *)

Min(a, b) == IF a <= b THEN a ELSE b
Max(a, b) == IF a >= b THEN a ELSE b
Abs(a) == IF a < 0 THEN -a ELSE a

RECURSIVE Gcd(_, _)
Gcd(a, b) == IF b = 0 THEN a ELSE Gcd(b, a % b)

\* Math.ceil(a / b), b > 0
CeilDiv(a, b) == -((-a) \div b)

\* Rationals in lowest terms, denominator > 0
Rat(n, d) ==
    LET g == Gcd(Abs(n), d)
    IN  IF n = 0 THEN <<0, 1>> ELSE <<n \div g, d \div g>>

RatInt(n) == <<n, 1>>

RatSub(a, b) ==
    LET l == (a[2] \div Gcd(a[2], b[2])) * b[2]
    IN  Rat(a[1] * (l \div a[2]) - b[1] * (l \div b[2]), l)

RatAdd(a, b) ==
    LET l == (a[2] \div Gcd(a[2], b[2])) * b[2]
    IN  Rat(a[1] * (l \div a[2]) + b[1] * (l \div b[2]), l)

RatDivInt(a, k) ==
    LET g == Gcd(Abs(a[1]), k)
    IN  IF a[1] = 0 THEN <<0, 1>> ELSE <<a[1] \div g, a[2] * (k \div g)>>

RatMul(a, b) ==
    LET g1 == Gcd(Abs(a[1]), b[2])
        g2 == Gcd(Abs(b[1]), a[2])
    IN  IF a[1] = 0 \/ b[1] = 0 THEN <<0, 1>>
        ELSE <<(a[1] \div g1) * (b[1] \div g2), (a[2] \div g2) * (b[2] \div g1)>>

RatLess(a, b) == a[1] * b[2] < b[1] * a[2]

RatMax(a, b) == IF RatLess(a, b) THEN b ELSE a

-----------------------------------------------------------------------------
(* Strings of sync_state: String(n) and parseInt(s) *)

Digits == <<"0", "1", "2", "3", "4", "5", "6", "7", "8", "9">>

RECURSIVE NatToString(_)
NatToString(n) ==
    IF n < 10 THEN <<Digits[n + 1]>>
    ELSE Append(NatToString(n \div 10), Digits[(n % 10) + 1])

\* String(n) of an integer
StringOf(n) == IF n < 0 THEN <<"-">> \o NatToString(-n) ELSE NatToString(n)

DigitValue(ch) == CHOOSE d \in 0..9 : Digits[d + 1] = ch

IsDigit(ch) == \E d \in 0..9 : Digits[d + 1] = ch

RECURSIVE ParseDigits(_, _, _)
ParseDigits(s, i, acc) ==
    IF i > Len(s) \/ ~IsDigit(s[i]) THEN acc
    ELSE ParseDigits(s, i + 1, acc * 10 + DigitValue(s[i]))

\* parseInt(s): an optional sign, then the leading digits; [nan |-> TRUE] is NaN
parseInt(s) ==
    LET neg   == Len(s) > 0 /\ s[1] = "-"
        first == IF neg THEN 2 ELSE 1
    IN  IF first > Len(s) \/ ~IsDigit(s[first]) THEN [nan |-> TRUE]
        ELSE IF neg THEN -ParseDigits(s, first, 0) ELSE ParseDigits(s, first, 0)

-----------------------------------------------------------------------------
(* Subsidy schedule and superblocks *)

\* The loop with a reduction of one thirteenth
RECURSIVE SubsidyLoopWrongDivisor(_, _, _)
SubsidyLoopWrongDivisor(subsidy, i, reductions) ==
    IF i < reductions
    THEN SubsidyLoopWrongDivisor(RatSub(subsidy, RatDivInt(subsidy, 13)), i + 1, reductions)
    ELSE subsidy

\* lines 374-378: subsidy = subsidy - subsidy / 14, once per reduction
RECURSIVE SubsidyLoop(_, _, _)
SubsidyLoop(subsidy, i, reductions) ==
    IF i < reductions
    THEN SubsidyLoop(RatSub(subsidy, RatDivInt(subsidy, 14)), i + 1, reductions)
    ELSE subsidy

getBlockSubsidy(height) ==
    SubsidyLoop(RatInt(nSubsidyBase), 0, height \div reductionInterval)

isSuperblock(height) == height % superblockCycle = 0

-----------------------------------------------------------------------------
(* The chain and its two sources *)

\* The canonical block at a height: one hash per height
ChainHash(height) == height

\* Block times: the first block at or after the cutoff is env.cutH
ChainTime(height) == JAN_1_2026_UNIX + (height - env.cutH) * SecondsPerBlock

\* getblockstats, in satoshis: fee and subsidy as the node reports them,
\* superblocks included
ChainFeeSat(height) == 100000000
ChainSubsidySat(height) == 500000000

\* Sum of the coinbase outputs as the public API reports them
ChainCoinbaseTotal(height) == RatInt(5)

fetchBlockViaRpc(height) ==
    [hash      |-> ChainHash(height),
     height    |-> height,
     time      |-> ChainTime(height),
     txCount   |-> 1,
     totalFees |-> Rat(ChainFeeSat(height), SATOSHIS_PER_DASH),
     subsidy   |-> Rat(ChainSubsidySat(height), SATOSHIS_PER_DASH)]

\* cbOk: whether the coinbase transaction could be fetched
fetchBlockViaInsight(height, cbOk) ==
    LET subsidy         == getBlockSubsidy(height)
        coinbaseSubsidy == IF isSuperblock(height) THEN subsidy
                           ELSE RatMul(subsidy, <<4, 5>>)
        totalFees       == IF isSuperblock(height) THEN RatInt(0)
                           ELSE IF cbOk
                                THEN RatMax(RatInt(0),
                                            RatSub(ChainCoinbaseTotal(height), coinbaseSubsidy))
                                ELSE RatInt(0)
    IN  [hash      |-> ChainHash(height),
         height    |-> height,
         time      |-> ChainTime(height),
         txCount   |-> 1,
         totalFees |-> totalFees,
         subsidy   |-> coinbaseSubsidy]

\* How one fetchBlock call ends
\*   "rpc"     served by the privileged source
\*   "insight" served by the public source
\*   "nofee"   served by the public source, coinbase transaction not fetched
\*   "dbfail"  served by the source tried first, and the insert throws
\*   "fail"    every source tried failed
Preferred(useRpc) == IF useRpc THEN "rpc" ELSE "insight"

Deviations(useRpc) ==
    {"fail", "dbfail", "nofee"} \cup (IF useRpc THEN {"insight"} ELSE {})

fetchBlock(height, useRpc, how) ==
    CASE how = "rpc"     -> fetchBlockViaRpc(height)
      [] how = "insight" -> fetchBlockViaInsight(height, TRUE)
      [] how = "nofee"   -> fetchBlockViaInsight(height, FALSE)
      [] how = "dbfail"  -> IF useRpc THEN fetchBlockViaRpc(height)
                            ELSE fetchBlockViaInsight(height, TRUE)

\* The sources one fetchBlock call queries, in order, and whether each served
\* the block: the privileged source queried whatever the verdict
SourcesTriedBoth(useRpc, how) ==
    CASE how = "fail" -> <<[src |-> "rpc", ok |-> FALSE], [src |-> "insight", ok |-> FALSE]>>
      [] how = "rpc"  -> <<[src |-> "rpc", ok |-> TRUE]>>
      [] OTHER        -> <<[src |-> "rpc", ok |-> FALSE], [src |-> "insight", ok |-> TRUE]>>

\* lines 362-367: the sources one fetchBlock call queries, in order, and
\* whether each served the block
SourcesTried(useRpc, how) ==
    LET rpc(ok)     == [src |-> "rpc", ok |-> ok]
        insight(ok) == [src |-> "insight", ok |-> ok]
    IN  IF useRpc
        THEN CASE how \in {"rpc", "dbfail"}     -> <<rpc(TRUE)>>
               [] how \in {"insight", "nofee"} -> <<rpc(FALSE), insight(TRUE)>>
               [] how = "fail"                 -> <<rpc(FALSE), insight(FALSE)>>
        ELSE <<insight(how # "fail")>>

blockDataToRow(block) ==
    LET fees == IF isSuperblock(block.height) THEN RatInt(0) ELSE block.totalFees
    IN  [hash      |-> block.hash,
         height    |-> block.height,
         time      |-> block.time,
         totalFees |-> fees,
         reward    |-> RatAdd(block.subsidy, fees),
         txCount   |-> block.txCount]

-----------------------------------------------------------------------------
(* Cache store *)

HasHash(tbl, hash) == \E r \in tbl : r.hash = hash

\* An insert that replaces the row holding the hash
OnConflictDoUpdate(tbl, row) ==
    {r \in tbl : r.hash # row.hash} \cup {row}

\* INSERT ... ON CONFLICT DO NOTHING on the primary key hash
OnConflictDoNothing(tbl, row) ==
    IF HasHash(tbl, row.hash) THEN tbl ELSE tbl \cup {row}

\* insertBlockRow's return value: true unless the statement throws
insertBlockRowResult(tbl, row, throws) == ~throws

\* One insertBlockRow call: the table after it and what it returned
insertBlockRow(tbl, row, throws) ==
    [tbl |-> IF throws THEN tbl ELSE OnConflictDoNothing(tbl, row),
     ret |-> insertBlockRowResult(tbl, row, throws),
     new |-> ~throws /\ ~HasHash(tbl, row.hash),
     hash |-> row.hash]

Heights(tbl) == {r.height : r \in tbl}
MinHeight(tbl) == CHOOSE h \in Heights(tbl) : \A k \in Heights(tbl) : h <= k
MaxHeight(tbl) == CHOOSE h \in Heights(tbl) : \A k \in Heights(tbl) : h >= k

setSyncValue(tbl, key, value) == [tbl EXCEPT ![key] = value]
getSyncValue(tbl, key) == tbl[key]

SyncKeys == {"backfill_target_height", "backfill_oldest_height"}

-----------------------------------------------------------------------------
(* Source selector *)

\* What checkRpcAvailability can return now: the cached verdict, or the
\* result of a probe (no probe without credentials)
ProbeWithoutCredentials ==
    IF rpcAvailable # NULL THEN {rpcAvailable = "true"} ELSE BOOLEAN

\* lines 87-104: the verdicts a call can return
checkRpcAvailability ==
    IF rpcAvailable # NULL THEN {rpcAvailable = "true"}
    ELSE IF env.rpcConfigured THEN BOOLEAN ELSE {FALSE}

Verdict(useRpc) == IF useRpc THEN "true" ELSE "false"

Probes == IF rpcAvailable = NULL /\ env.rpcConfigured THEN 1 ELSE 0

\* lines 361-362 and 88-95: the fetchBlock calls of a batch start together, and
\* each of them finds the verdict as the batch found it: with an unknown
\* verdict and credentials every one of them sends a probe. The probes of one
\* batch are taken to end alike
BatchProbes(hs) == Probes * Len(hs)

-----------------------------------------------------------------------------
(* Environment events *)

\* An event of a kind can happen while the run's budget lasts; a negative
\* budget is no limit
Allowed(kind) == kind \in env.kinds /\ budget.events # 0

CanSpend(n) == budget.events < 0 \/ n <= budget.events

Spend(n) == [budget EXCEPT !.events = IF @ < 0 THEN @ ELSE @ - n]

EventsLeft == IF budget.events < 0 THEN MaxEvents ELSE budget.events

-----------------------------------------------------------------------------
(* Batches of fetchBlock calls *)

Range(seq) == {seq[i] : i \in DOMAIN seq}

Remove(seq, i) == [k \in 1..(Len(seq) - 1) |-> IF k < i THEN seq[k] ELSE seq[k + 1]]

RECURSIVE SubsetsUpTo(_, _)
SubsetsUpTo(S, k) ==
    IF k <= 0 THEN {{}}
    ELSE LET P == SubsetsUpTo(S, k - 1)
         IN  P \cup {p \cup {x} : p \in P, x \in S}

\* The ways the fetches of one batch can end: each as the source tried first
\* serves it, but for the fetches that the events left allow to go otherwise
\* With the privileged source down after a true verdict, every fetchBlockViaRpc
\* of the batch returns null and the public source serves the block (lines
\* 363-367)
RpcDown(hs) == [h \in hs |-> "insight"]

Outcomes(hs, useRpc) ==
    (IF "fault" \in env.kinds
     THEN UNION {{[h \in hs |-> IF h \in D THEN t[h] ELSE Preferred(useRpc)] :
                     t \in [D -> Deviations(useRpc)]} :
                 D \in SubsetsUpTo(hs, EventsLeft)}
     ELSE {[h \in hs |-> Preferred(useRpc)]})
    \cup (IF "rpcdown" \in env.kinds /\ useRpc THEN {RpcDown(hs)} ELSE {})

AllFail(hs) == [h \in hs |-> "fail"]

IsAllFail(how) == \A h \in DOMAIN how : how[h] = "fail"

Failed(how) == {h \in DOMAIN how : how[h] = "fail"}

\* The fetches of a batch that count against the events of the run
Deviants(how, useRpc) ==
    IF "rpcdown" \in env.kinds /\ useRpc /\ how = RpcDown(DOMAIN how)
    THEN 0
    ELSE Cardinality({h \in DOMAIN how : how[h] # Preferred(useRpc)})

NoneUnlessAll(hs, how) ==
    IF \E h \in Range(hs) : how[h] = "fail" THEN {} ELSE Range(hs)

\* lines 431 and 509: the results that are fulfilled with a block
Fulfilled(hs, how) == {h \in Range(hs) : how[h] # "fail"}

AnyTime(time) == TRUE

\* line 511
NotOlderThanCutoff(time) == time >= JAN_1_2026_UNIX

\* The loop over the settled results of a batch: a fulfilled result is turned
\* into a row and inserted (backfill: only when not older than the cutoff)
\* The heights of one batch differ and so do their hashes: no insert of the
\* batch can conflict with another one of it, and each is decided by the table
\* as the batch found it
StoreResults(st, hs, how, useRpc, cutoff) ==
    LET got  == Fulfilled(hs, how)
        kept == {h \in got :
                    cutoff => NotOlderThanCutoff(fetchBlock(h, useRpc, how[h]).time)}
        res  == [h \in kept |->
                    insertBlockRow(st.tbl,
                                   blockDataToRow(fetchBlock(h, useRpc, how[h])),
                                   how[h] = "dbfail")]
    IN  [tbl       |-> (st.tbl \ UNION {st.tbl \ res[h].tbl : h \in kept})
                           \cup UNION {res[h].tbl \ st.tbl : h \in kept},
         inserted  |-> st.inserted + Cardinality({h \in kept : res[h].ret}),
         added     |-> st.added + Cardinality({h \in kept : res[h].new}),
         anyFailed |-> st.anyFailed \/ got # Range(hs),
         log       |-> st.log \cup
                       {[hash |-> res[h].hash, ret |-> res[h].ret, new |-> res[h].new] :
                           h \in kept}]

NoResults(tbl) ==
    [tbl |-> tbl, inserted |-> 0, added |-> 0, anyFailed |-> FALSE, log |-> {}]

\* The sources queried for each height of a batch
Tried(how, useRpc) == [h \in DOMAIN how |-> SourcesTried(useRpc, how[h])]

\* line 187: no snapshot yet
NoMnCache == [set |-> FALSE, enabled |-> 0, evoEnabled |-> 0, fetchedAt |-> 0]

\* What a step did: the call event, the heights requested, the sources queried
\* for each, the fetches that failed, the inserts, the probes sent, the value
\* returned; for a syncNewCoreBlocks call that returns, also what it read
\* (MAX(height), the chain height), the heights it requested in all, how many
\* requests it made and how many rows it added; for an epoch step, the values
\* handed to the upsert, the epoch number asked for (in a status step the
\* current epoch number of the answer, -1 without one) and the delay awaited
\* before the loop goes on; for a fetchMasternodeCounts call, the sources it
\* asked in order and the counts it returned
NoIo ==
    [ev |-> "none", fetched |-> {}, tried |-> <<>>, failed |-> {}, inserts |-> {},
     probes |-> 0, count |-> 0, cachedMax |-> 0, live |-> 0, asked |-> {},
     nAsked |-> 0, added |-> 0, upsert |-> <<>>, statusTried |-> <<>>, height |-> 0,
     epoch |-> -1, delay |-> 0, sources |-> <<>>, evoNodes |-> 0]

Did(ev) == [NoIo EXCEPT !.ev = ev]

-----------------------------------------------------------------------------
(* startCoreBackfill *)

NewBf ==
    [pc |-> "readMin", oldestCached |-> 0, targetHeight |-> 0, currentHeight |-> 0,
     consecutiveErrors |-> 0, totalInserted |-> 0, useRpc |-> FALSE, backoff |-> 0]

InitialProgress ==
    [totalNeeded |-> 0, totalDone |-> 0, oldestHeight |-> 0, targetHeight |-> 0,
     status |-> "idle"]

BackfillBatchSize(useRpc) == IF useRpc THEN BackfillBatchRpc ELSE BackfillBatchPublic

ErrorBackoff(useRpc) == IF useRpc THEN BackoffRpc ELSE BackoffPublic

BackoffUncapped(errorBackoff, consecutiveErrors) == errorBackoff * consecutiveErrors

Backoff(errorBackoff, consecutiveErrors) ==
    errorBackoff * Min(consecutiveErrors, BackoffCap)

BatchToTarget(currentHeight, targetHeight, size) ==
    [i \in 1..(currentHeight - targetHeight + 1) |-> currentHeight - (i - 1)]

\* lines 500-503: the heights one iteration of the walk requests, in request
\* order
BatchHeights(currentHeight, targetHeight, size) ==
    [i \in 1..Min(size, currentHeight - targetHeight + 1) |-> currentHeight - (i - 1)]

NeverRunning == FALSE

\* The guard at the top of startCoreBackfill
AlreadyRunning == backfillRunning

StrictlyBelow(oldestCached, targetHeight) == oldestCached < targetHeight

\* line 470
AlreadySatisfied(oldestCached, targetHeight) == oldestCached <= targetHeight

\* line 545
FinishStatus(currentHeight, targetHeight) ==
    IF currentHeight <= targetHeight THEN "complete" ELSE "paused"

\* line 530: the cursor after a batch that advanced
Advance(currentHeight, size) == currentHeight - size

\* lines 452-457: the exclusive-run flag
startCoreBackfill ==
    IF AlreadyRunning
    THEN /\ io' = Did("bf:skipped")
         /\ UNCHANGED <<bf, backfillRunning>>
    ELSE /\ backfillRunning' = TRUE
         /\ bf' = Append(bf, NewBf)
         /\ io' = Did("bf:started")

\* A call of startCoreBackfill
BfCall ==
    /\ budget.calls > 0
    /\ budget' = [budget EXCEPT !.calls = @ - 1]
    /\ startCoreBackfill
    /\ UNCHANGED <<blocks, syncState, backfillProgress, rpcAvailable, fs, tip, env,
                   killed, sub, epochVars, mnVars, seed>>

\* A cache that holds no block although a minimum height was read
OneCached(tbl) == IF tbl = {} THEN 1 ELSE MinHeight(tbl)

\* lines 460-461: MIN(height), null (here 0) on an empty table
OldestCached(tbl) == IF tbl = {} THEN 0 ELSE MinHeight(tbl)

\* lines 460-467: MIN(height), and the return on an empty cache
BfReadMin(c) ==
    /\ bf[c].pc = "readMin"
    /\ IF OldestCached(blocks) = 0
       THEN /\ backfillRunning' = FALSE
            /\ bf' = Remove(bf, c)
            /\ io' = Did("bf:empty")
       ELSE /\ bf' = [bf EXCEPT ![c].pc = "getTarget",
                                ![c].oldestCached = OldestCached(blocks)]
            /\ io' = NoIo
            /\ UNCHANGED backfillRunning
    /\ UNCHANGED <<blocks, syncState, backfillProgress, rpcAvailable, fs, tip, env,
                   budget, killed, sub, epochVars, mnVars, seed>>

\* lines 470-490, once the target is known: complete at once, or set up the walk
BfBegin(c, targetHeight) ==
    LET oldestCached == bf[c].oldestCached
    IN  IF AlreadySatisfied(oldestCached, targetHeight)
        THEN /\ backfillProgress' = [backfillProgress EXCEPT !.status = "complete"]
             /\ backfillRunning' = FALSE
             /\ bf' = Remove(bf, c)
             /\ io' = Did("bf:complete")
        ELSE /\ backfillProgress' =
                    [totalNeeded  |-> oldestCached - targetHeight,
                     totalDone    |-> 0,
                     oldestHeight |-> oldestCached,
                     targetHeight |-> targetHeight,
                     status       |-> "running"]
             /\ bf' = [bf EXCEPT ![c].pc = "checkRpc",
                                 ![c].targetHeight = targetHeight,
                                 ![c].currentHeight = oldestCached - 1,
                                 ![c].consecutiveErrors = 0,
                                 ![c].totalInserted = 0]
             /\ io' = Did("bf:begin")
             /\ UNCHANGED backfillRunning

NeverSaved(saved) == FALSE

\* line 557: a saved value, any string but the empty one
HasSaved(saved) == saved # <<>>

\* estimateTargetHeight, lines 556-557: the saved target
BfGetTarget(c) ==
    /\ bf[c].pc = "getTarget"
    /\ LET saved == getSyncValue(syncState, "backfill_target_height")
       IN  IF HasSaved(saved)
           THEN BfBegin(c, parseInt(saved))
           ELSE /\ bf' = [bf EXCEPT ![c].pc = "estimate"]
                /\ io' = NoIo
                /\ UNCHANGED <<backfillProgress, backfillRunning>>
    /\ UNCHANGED <<blocks, syncState, rpcAvailable, fs, tip, env, budget, killed, sub, epochVars, mnVars, seed>>

\* estimateTargetHeight, lines 559-572: the target derived from MAX(height)
estimateTargetHeight(latestHeight, now) ==
    LET secondsSinceJan1 == now - JAN_1_2026_UNIX
        blocksSinceJan1  == CeilDiv(secondsSinceJan1, SecondsPerBlock)
    IN  latestHeight - blocksSinceJan1

BfEstimate(c) ==
    /\ bf[c].pc = "estimate"
    /\ IF blocks # {} /\ MaxHeight(blocks) # 0
       THEN LET target == estimateTargetHeight(MaxHeight(blocks), env.now)
            IN  /\ syncState' = setSyncValue(syncState, "backfill_target_height",
                                             StringOf(target))
                /\ BfBegin(c, target)
       ELSE /\ UNCHANGED syncState
            /\ BfBegin(c, FallbackTarget)
    /\ UNCHANGED <<blocks, rpcAvailable, fs, tip, env, budget, killed, sub, epochVars, mnVars, seed>>

\* lines 492-497: the source, and with it the batch size, chosen once per run
BfCheckRpc(c) ==
    /\ bf[c].pc = "checkRpc"
    /\ \E useRpc \in checkRpcAvailability :
          /\ rpcAvailable' = Verdict(useRpc)
          /\ bf' = [bf EXCEPT ![c].pc = "loop", ![c].useRpc = useRpc]
    /\ io' = [NoIo EXCEPT !.probes = Probes]
    /\ UNCHANGED <<blocks, syncState, backfillRunning, backfillProgress, fs, tip, env,
                   budget, killed, sub, epochVars, mnVars, seed>>

\* The failure counter: exact while fully failed batches are counted against
\* the events of the run, saturating when they are not
NextErrors(n) ==
    IF budget.events < 0 THEN Min(n + 1, MaxConsecutive) ELSE n + 1

BatchNeverFailed(anyFailed, batchInserted) == FALSE

\* line 520: the batch counts as failed
BatchFailed(anyFailed, batchInserted) == anyFailed /\ batchInserted = 0

\* line 533: the checkpoint is due
CheckpointDue(totalInserted) ==
    totalInserted % CheckpointEvery = 0 /\ totalInserted > 0

CatchSilent(progress) == progress

\* lines 547-549: the catch of the run
Catch(progress) == [progress EXCEPT !.status = "error"]

\* lines 499-542: one iteration of the walk; the write of the checkpoint may
\* throw, which ends the run in the catch
BfBatch(c) ==
    /\ bf[c].pc = "loop"
    /\ bf[c].currentHeight >= bf[c].targetHeight
    /\ backfillRunning
    /\ LET me   == bf[c]
           size == BackfillBatchSize(me.useRpc)
           hs   == BatchHeights(me.currentHeight, me.targetHeight, size)
       IN  \E useRpc \in checkRpcAvailability :
           \E how \in Outcomes(Range(hs), useRpc) \cup {AllFail(Range(hs))} :
           \E threw \in BOOLEAN :
           \E st \in {StoreResults(NoResults(blocks), hs, how, useRpc, TRUE)} :
              LET stall == IsAllFail(how)
                  cost  == (IF stall THEN 1 ELSE Deviants(how, useRpc))
                           + (IF threw THEN 1 ELSE 0)
                  totalInserted == me.totalInserted + st.inserted
                  currentHeight == Advance(me.currentHeight, size)
              IN  /\ stall => Allowed("stall")
                  /\ threw => /\ Allowed("throw")
                              /\ ~BatchFailed(st.anyFailed, st.inserted)
                              /\ CheckpointDue(totalInserted)
                  /\ CanSpend(cost)
                  /\ budget' = Spend(cost)
                  /\ rpcAvailable' = Verdict(useRpc)
                  /\ blocks' = st.tbl
                  /\ io' = [NoIo EXCEPT !.ev = IF threw THEN "bf:error" ELSE "bf:batch",
                                        !.fetched = Range(hs),
                                        !.tried = Tried(how, useRpc),
                                        !.failed = Failed(how),
                                        !.inserts = st.log,
                                        !.probes = BatchProbes(hs)]
                  /\ IF BatchFailed(st.anyFailed, st.inserted)
                     THEN LET errors == NextErrors(me.consecutiveErrors)
                          IN  /\ bf' = [bf EXCEPT
                                           ![c].consecutiveErrors = errors,
                                           ![c].backoff =
                                               Backoff(ErrorBackoff(me.useRpc), errors)]
                              /\ UNCHANGED <<backfillProgress, syncState, backfillRunning>>
                     ELSE LET progress == [backfillProgress EXCEPT
                                              !.totalDone = (me.oldestCached - 1) - currentHeight,
                                              !.oldestHeight = currentHeight + 1]
                          IN  IF threw
                              THEN /\ bf' = Remove(bf, c)
                                   /\ backfillProgress' = Catch(progress)
                                   /\ backfillRunning' = FALSE
                                   /\ UNCHANGED syncState
                              ELSE /\ bf' = [bf EXCEPT
                                                ![c].consecutiveErrors = 0,
                                                ![c].backoff = 0,
                                                ![c].totalInserted = totalInserted,
                                                ![c].currentHeight = currentHeight]
                                   /\ backfillProgress' = progress
                                   /\ UNCHANGED backfillRunning
                                   /\ IF CheckpointDue(totalInserted)
                                      THEN syncState' =
                                               setSyncValue(syncState, "backfill_oldest_height",
                                                            StringOf(currentHeight))
                                      ELSE UNCHANGED syncState
    /\ UNCHANGED <<fs, tip, env, killed, sub, epochVars, mnVars, seed>>

\* lines 544-546 and 550-552: the walk is over
BfFinish(c) ==
    /\ bf[c].pc = "loop"
    /\ ~(bf[c].currentHeight >= bf[c].targetHeight /\ backfillRunning)
    /\ syncState' = setSyncValue(syncState, "backfill_oldest_height",
                                 StringOf(bf[c].currentHeight))
    /\ backfillProgress' =
           [backfillProgress EXCEPT
               !.status = FinishStatus(bf[c].currentHeight, bf[c].targetHeight)]
    /\ backfillRunning' = FALSE
    /\ bf' = Remove(bf, c)
    /\ io' = Did("bf:walked")
    /\ UNCHANGED <<blocks, rpcAvailable, fs, tip, env, budget, killed, sub, epochVars, mnVars, seed>>

\* Where a call awaits the store outside a batch
AtStoreCall(me) ==
    IF me.pc = "loop" THEN ~(me.currentHeight >= me.targetHeight /\ backfillRunning)
    ELSE me.pc \in {"readMin", "getTarget", "estimate"}

\* lines 547-552: a store call of the run throws
BfThrow(c) ==
    /\ AtStoreCall(bf[c])
    /\ Allowed("throw")
    /\ budget' = Spend(1)
    /\ backfillProgress' = Catch(backfillProgress)
    /\ backfillRunning' = FALSE
    /\ bf' = Remove(bf, c)
    /\ io' = Did("bf:error")
    /\ UNCHANGED <<blocks, syncState, rpcAvailable, fs, tip, env, killed, sub, epochVars, mnVars, seed>>

-----------------------------------------------------------------------------
(* syncNewCoreBlocks *)

\* caller: the timer or the route, or the startup loop that awaits the result
NewFs ==
    [pc |-> "readMax", highestCached |-> 0, startHeight |-> 0, toFetch |-> 0, i |-> 0,
     inserted |-> 0, useRpc |-> FALSE, asked |-> {}, nAsked |-> 0, added |-> 0,
     caller |-> "timer"]

NoSeed == [pc |-> "off", attempt |-> 0, count |-> 0]

\* part_002:443: the value the startup loop receives when its call returns
SeedAfter(call, count) ==
    IF call.caller = "seed" THEN [seed EXCEPT !.pc = "returned", !.count = count]
    ELSE seed

SyncBatchSize(useRpc) == IF useRpc THEN SyncBatchRpc ELSE SyncBatchPublic

ToFetchUncapped(highestCached, currentHeight) ==
    IF highestCached # 0 THEN currentHeight - highestCached ELSE SeedFetch

\* line 418
ToFetch(highestCached, currentHeight) ==
    IF highestCached # 0 THEN Min(currentHeight - highestCached, ForwardCap)
    ELSE SeedFetch

SyncBatchWhole(startHeight, i, batchSize, toFetch) ==
    [k \in 1..batchSize |-> startHeight - (i + k - 1)]

\* lines 428-430: the heights of the batch that starts at index i
SyncBatchHeights(startHeight, i, batchSize, toFetch) ==
    [k \in 1..(Min(i + batchSize, toFetch) - i) |-> startHeight - (i + k - 1)]

FsCall ==
    /\ budget.calls > 0
    /\ budget' = [budget EXCEPT !.calls = @ - 1]
    /\ fs' = Append(fs, NewFs)
    /\ io' = Did("fs:started")
    /\ UNCHANGED <<blocks, syncState, backfillRunning, backfillProgress, rpcAvailable,
                   bf, tip, env, killed, sub, epochVars, mnVars, seed>>

\* lines 409-410: MAX(height), 0 on an empty cache
FsReadMax(s) ==
    /\ fs[s].pc = "readMax"
    /\ fs' = [fs EXCEPT ![s].pc = "status",
                        ![s].highestCached =
                            IF blocks = {} THEN 0 ELSE MaxHeight(blocks)]
    /\ io' = NoIo
    /\ UNCHANGED <<blocks, syncState, backfillRunning, backfillProgress, rpcAvailable,
                   bf, tip, env, budget, killed, sub, epochVars, mnVars, seed>>

Behind(highestCached, currentHeight) ==
    highestCached # 0 /\ currentHeight < highestCached

\* line 416
UpToDate(highestCached, currentHeight) ==
    highestCached # 0 /\ currentHeight <= highestCached

\* fetchCoreStatus, lines 278-294: the sources of the chain height, in the
\* order in which they are queried
StatusSources(useRpc) ==
    IF useRpc THEN <<"rpc", "insight", "blockbook">> ELSE <<"insight", "blockbook">>

StatusTriedAll(useRpc, served) ==
    [i \in DOMAIN StatusSources(useRpc) |->
        [src |-> StatusSources(useRpc)[i], ok |-> served # 0 /\ i >= served]]

\* fetchCoreStatus, lines 277-296: the sources queried when the served-th of
\* them is the first that answers with a height, all of them when served is 0
StatusTried(useRpc, served) ==
    LET srcs == StatusSources(useRpc)
        n    == IF served = 0 THEN Len(srcs) ELSE served
    IN  [i \in 1..n |-> [src |-> srcs[i], ok |-> i = served]]

\* The ways a status query can end: the first source answers, or with a failed
\* source a later one or none does
StatusOutcomes(useRpc) ==
    IF Allowed("fault") \/ "outage" \in env.kinds
    THEN 0..Len(StatusSources(useRpc))
    ELSE {1}

\* lines 412-424: the chain height, the no-op return, the size of the job
FsStatus(s) ==
    /\ fs[s].pc = "status"
    /\ \E useRpc \in checkRpcAvailability :
       \E served \in StatusOutcomes(useRpc) :
          /\ budget' = IF served = 1 \/ "outage" \in env.kinds THEN budget ELSE Spend(1)
          /\ rpcAvailable' = Verdict(useRpc)
          /\ LET tried         == StatusTried(useRpc, served)
                 statusOk      == tried[Len(tried)].ok
                 currentHeight == IF statusOk THEN tip ELSE 0
                 highestCached == fs[s].highestCached
                 asked         == [NoIo EXCEPT !.probes = Probes,
                                               !.statusTried = tried,
                                               !.height = currentHeight]
             IN  IF currentHeight = 0
                 THEN /\ fs' = Remove(fs, s)
                      /\ io' = [asked EXCEPT !.ev = "fs:return"]
                 ELSE IF UpToDate(highestCached, currentHeight)
                 THEN /\ fs' = Remove(fs, s)
                      /\ io' = [asked EXCEPT !.ev = "fs:return",
                                             !.cachedMax = highestCached,
                                             !.live = currentHeight]
                 ELSE /\ fs' = [fs EXCEPT
                                   ![s].pc = "loop",
                                   ![s].toFetch = ToFetch(highestCached, currentHeight),
                                   ![s].startHeight = currentHeight,
                                   ![s].i = 0,
                                   ![s].inserted = 0,
                                   ![s].useRpc = useRpc]
                      /\ io' = [asked EXCEPT !.ev = "fs:status"]
    /\ seed' = IF Len(fs') < Len(fs) THEN SeedAfter(fs[s], 0) ELSE seed
    /\ UNCHANGED <<blocks, syncState, backfillRunning, backfillProgress, bf, tip, env,
                   killed, sub, epochVars, mnVars>>

\* lines 426-444: one batch, and the return after the last one
FsBatch(s) ==
    /\ fs[s].pc = "loop"
    /\ LET me        == fs[s]
           batchSize == SyncBatchSize(me.useRpc)
           hs        == SyncBatchHeights(me.startHeight, me.i, batchSize, me.toFetch)
       IN  \E useRpc \in checkRpcAvailability :
           \E how \in Outcomes(Range(hs), useRpc) :
           \E st \in {StoreResults(NoResults(blocks), hs, how, useRpc, FALSE)} :
              LET inserted == me.inserted + st.inserted
                  added    == me.added + st.added
                  asked    == me.asked \cup Range(hs)
                  nAsked   == me.nAsked + Len(hs)
                  last     == ~(me.i + batchSize < me.toFetch)
              IN  /\ CanSpend(Deviants(how, useRpc))
                  /\ budget' = Spend(Deviants(how, useRpc))
                  /\ rpcAvailable' = Verdict(useRpc)
                  /\ blocks' = st.tbl
                  /\ io' = [NoIo EXCEPT
                               !.ev        = IF last THEN "fs:return" ELSE "fs:batch",
                               !.fetched   = Range(hs),
                               !.tried     = Tried(how, useRpc),
                               !.failed    = Failed(how),
                               !.inserts   = st.log,
                               !.probes    = BatchProbes(hs),
                               !.count     = IF last THEN inserted ELSE 0,
                               !.cachedMax = IF last THEN me.highestCached ELSE 0,
                               !.live      = IF last THEN me.startHeight ELSE 0,
                               !.asked     = IF last THEN asked ELSE {},
                               !.nAsked    = IF last THEN nAsked ELSE 0,
                               !.added     = IF last THEN added ELSE 0]
                  /\ seed' = IF last THEN SeedAfter(me, inserted) ELSE seed
                  /\ IF last
                     THEN fs' = Remove(fs, s)
                     ELSE fs' = [fs EXCEPT ![s].i = me.i + batchSize,
                                           ![s].inserted = inserted,
                                           ![s].asked = asked,
                                           ![s].nAsked = nAsked,
                                           ![s].added = added]
    /\ UNCHANGED <<syncState, backfillRunning, backfillProgress, bf, tip, env, killed, sub, epochVars, mnVars>>

\* lines 445-448: the MAX(height) query throws
FsThrow(s) ==
    /\ fs[s].pc = "readMax"
    /\ Allowed("throw")
    /\ budget' = Spend(1)
    /\ fs' = Remove(fs, s)
    /\ io' = Did("fs:return")
    /\ seed' = SeedAfter(fs[s], 0)
    /\ UNCHANGED <<blocks, syncState, backfillRunning, backfillProgress, rpcAvailable,
                   bf, tip, env, killed, sub, epochVars, mnVars>>

-----------------------------------------------------------------------------
(* POST /api/import-backfill *)

\* A row of backfill-data.json
FileRow(hash, height, fees) ==
    [hash      |-> hash,
     height    |-> height,
     time      |-> ChainTime(height),
     totalFees |-> fees,
     reward    |-> RatAdd(RatInt(5), fees),
     txCount   |-> 1]

\* The rows a file is made of: the superblock with the fees the node reports
\* for it, a block of the chain without fees, a block that is not on the chain
FileRows ==
    {FileRow(ChainHash(superblockCycle), superblockCycle, RatInt(1)),
     FileRow(ChainHash(superblockCycle + 2), superblockCycle + 2, RatInt(0)),
     FileRow(0, superblockCycle + 1, RatInt(0))}

ImportFiles ==
    {<<r>> : r \in FileRows} \cup {<<r, q>> : r \in FileRows, q \in FileRows}

RECURSIVE InsertValues(_, _)
InsertValues(tbl, rows) ==
    IF rows = <<>> THEN tbl
    ELSE InsertValues(OnConflictDoNothing(tbl, Head(rows)), Tail(rows))

ImportBackfill ==
    /\ Allowed("import")
    /\ budget' = Spend(1)
    /\ \E file \in ImportFiles :
          /\ blocks' = InsertValues(blocks, file)
          /\ io' = [Did("import") EXCEPT !.count = Len(file)]
    /\ UNCHANGED <<syncState, backfillRunning, backfillProgress, rpcAvailable, bf, fs,
                   tip, env, killed, sub, epochVars, mnVars, seed>>

-----------------------------------------------------------------------------
(* The environment: the chain, the timer, the process *)

GrowthSteps == {1, 3}

ChainGrows ==
    /\ Allowed("growth")
    /\ budget' = Spend(1)
    /\ \E n \in GrowthSteps : tip' = tip + n
    /\ io' = NoIo
    /\ UNCHANGED <<blocks, syncState, backfillRunning, backfillProgress, rpcAvailable,
                   bf, fs, env, killed, sub, epochVars, mnVars, seed>>

\* lines 106-110: the timer that forgets the verdict
AvailabilityTick ==
    /\ Allowed("tick")
    /\ budget' = Spend(1)
    /\ rpcAvailable' = IF rpcAvailable # "true" THEN NULL ELSE rpcAvailable
    /\ io' = Did("tick")
    /\ UNCHANGED <<blocks, syncState, backfillRunning, backfillProgress, bf, fs, tip,
                   env, killed, sub, epochVars, mnVars, seed>>

\* The process is killed and started again: the tables stay, the module-level
\* variables (lines 14-16) and every call in progress are gone
Restart ==
    /\ Allowed("kill")
    /\ budget' = Spend(1)
    /\ backfillRunning' = FALSE
    /\ backfillProgress' = InitialProgress
    /\ rpcAvailable' = NULL
    /\ bf' = <<>>
    /\ fs' = <<>>
    /\ killed' = IF \E c \in DOMAIN bf : bf[c].pc = "loop" THEN "midWalk" ELSE "other"
    /\ es' = <<>>
    /\ io' = Did("restart")
    /\ cachedMnCounts' = NoMnCache
    /\ UNCHANGED <<blocks, syncState, tip, env, sub, platformEpochFees, platform, seed,
                   clock>>

\* The stop signal: the flag of a run in progress is cleared from outside it
StopBackfill ==
    /\ Allowed("stop")
    /\ backfillRunning
    /\ budget' = Spend(1)
    /\ backfillRunning' = FALSE
    /\ io' = Did("stop")
    /\ UNCHANGED <<blocks, syncState, backfillProgress, rpcAvailable, bf, fs, tip, env,
                   killed, sub, epochVars, mnVars, seed>>

-----------------------------------------------------------------------------
(* seedAndBackfill, part_002:441-450 *)

\* part_002:443: the call of syncNewCoreBlocks that the startup loop awaits
SeedCall == [NewFs EXCEPT !.caller = "seed"]

FirstSeed == [pc |-> "await", attempt |-> 0, count |-> 0]

\* part_002:444-446, 448: with a count above 0 the loop is left and
\* startCoreBackfill is called; otherwise the loop waits
SeedResume ==
    /\ seed.pc = "returned"
    /\ IF seed.count > 0
       THEN /\ seed' = [seed EXCEPT !.pc = "done"]
            /\ startCoreBackfill
            /\ UNCHANGED fs
       ELSE /\ seed' = [seed EXCEPT !.pc = "wait"]
            /\ io' = Did("seed:wait")
            /\ UNCHANGED <<fs, bf, backfillRunning>>
    /\ UNCHANGED <<blocks, syncState, backfillProgress, rpcAvailable, tip, env, budget,
                   killed, sub, epochVars, mnVars>>

\* part_002:442-443, 448: after the wait the next attempt, or after the last
\* attempt the call of startCoreBackfill
SeedRetry ==
    /\ seed.pc = "wait"
    /\ IF seed.attempt + 1 < SeedAttempts
       THEN /\ seed' = [seed EXCEPT !.pc = "await", !.attempt = @ + 1]
            /\ fs' = Append(fs, SeedCall)
            /\ io' = Did("seed:attempt")
            /\ UNCHANGED <<bf, backfillRunning>>
       ELSE /\ seed' = [seed EXCEPT !.pc = "done", !.attempt = @ + 1]
            /\ startCoreBackfill
            /\ UNCHANGED fs
    /\ UNCHANGED <<blocks, syncState, backfillProgress, rpcAvailable, tip, env, budget,
                   killed, sub, epochVars, mnVars>>

-----------------------------------------------------------------------------
(* getBlockSubsidy on its own *)

NoSub == [h1 |-> 0, h2 |-> 0, s1 |-> <<0, 1>>, s2 |-> <<0, 1>>, done |-> FALSE]

\* The first two heights and the last height of each reduction era
SubsidyHeights ==
    {e * reductionInterval + d : e \in 0..MaxEra, d \in {0, 1, reductionInterval - 1}}

SubsidyCompute ==
    /\ ~sub.done
    /\ sub' = [sub EXCEPT !.s1 = getBlockSubsidy(sub.h1),
                          !.s2 = getBlockSubsidy(sub.h2),
                          !.done = TRUE]
    /\ UNCHANGED <<blocks, syncState, backfillRunning, backfillProgress, rpcAvailable,
                   bf, fs, tip, env, budget, io, killed, epochVars, mnVars, seed>>

SubsidyPick ==
    /\ sub.done
    /\ \E h1 \in SubsidyHeights, h2 \in SubsidyHeights :
          sub' = [NoSub EXCEPT !.h1 = h1, !.h2 = h2]
    /\ UNCHANGED <<blocks, syncState, backfillRunning, backfillProgress, rpcAvailable,
                   bf, fs, tip, env, budget, io, killed, epochVars, mnVars, seed>>

-----------------------------------------------------------------------------
(* syncAllPlatformEpochs *)

coreVars == <<blocks, syncState, backfillRunning, backfillProgress, rpcAvailable,
              bf, fs, tip, env, killed, sub, seed, mnVars>>

\* A time in milliseconds, kept as its whole seconds and the milliseconds
\* beyond them
Ms(sec, ms) == [sec |-> sec, ms |-> ms]

\* lines 625-627: epochStartMs / 1000 < JAN_1_2026_UNIX
StartsBeforeCutoff(startTime) == startTime.sec < JAN_1_2026_UNIX

\* Number(v || d): a value the explorer leaves out, or reports as 0, gives d
NumberOr(v, d) == IF v = 0 THEN d ELSE v

\* The epochs the explorer reports: those below first began before the cutoff,
\* the last of them one millisecond before it; the others a day apart from the
\* cutoff on
EpochStart(n, first) ==
    IF n < first THEN Ms(JAN_1_2026_UNIX - 1 - (first - 1 - n) * 86400, 999)
    ELSE Ms(JAN_1_2026_UNIX + (n - first) * 86400, 0)

Reported(n, first) ==
    [number |-> n, startTime |-> EpochStart(n, first),
     endTime |-> EpochStart(n + 1, first), totalCollectedFees |-> n,
     feeMultiplier |-> 0]

History(current, first) ==
    [current |-> current, first |-> first,
     epoch |-> [n \in 0..current |-> Reported(n, first)]]

NoPlatform == History(0, 1)

\* lines 632-638: the values handed to the insert
EpochValues(ep) ==
    [epochNumber |-> ep.number,
     startTime |-> ep.startTime,
     endTime |-> ep.endTime,
     totalCollectedFees |-> NumberOr(ep.totalCollectedFees, 0),
     feeMultiplier |-> NumberOr(ep.feeMultiplier, 1)]

UpsertEpochAllFields(tbl, row) ==
    {r \in tbl : r.epochNumber # row.epochNumber} \cup {row}

\* lines 631-645: insert, and on a row with the same epochNumber (the primary
\* key, schema.ts:15) update totalCollectedFees and endTime of that row
UpsertEpoch(tbl, row) ==
    IF \E r \in tbl : r.epochNumber = row.epochNumber
    THEN {IF r.epochNumber = row.epochNumber
          THEN [r EXCEPT !.totalCollectedFees = row.totalCollectedFees,
                         !.endTime = row.endTime]
          ELSE r : r \in tbl}
    ELSE tbl \cup {row}

NewEs == [pc |-> "status", epochNum |-> 0, inserted |-> 0]

\* part_002:439, 457: the call at startup and the one of every interval
EsCall ==
    /\ budget.calls > 0
    /\ budget' = [budget EXCEPT !.calls = @ - 1]
    /\ es' = Append(es, NewEs)
    /\ io' = Did("es:started")
    /\ UNCHANGED <<coreVars, platformEpochFees, platform>>

\* lines 615-619: the status answers; no status, or a current epoch number
\* that is 0 or missing, ends the call with 0
EsStatus(k) ==
    /\ es[k].pc = "status"
    /\ \E ok \in IF Allowed("fault") THEN BOOLEAN ELSE {TRUE} :
          /\ budget' = IF ok THEN budget ELSE Spend(1)
          /\ IF ok /\ platform.current # 0
             THEN /\ es' = [es EXCEPT ![k].pc = "loop",
                                      ![k].epochNum = platform.current]
                  /\ io' = [Did("es:status") EXCEPT !.epoch = platform.current]
             ELSE /\ es' = Remove(es, k)
                  /\ io' = [Did("es:return") EXCEPT
                               !.count = 0,
                               !.epoch = IF ok THEN platform.current ELSE -1]
    /\ UNCHANGED <<coreVars, platformEpochFees, platform>>

EpochOutcomes ==
    {"ok"} \cup (IF Allowed("fault") THEN {"fetchFails"} ELSE {})
           \cup (IF Allowed("throw") THEN {"upsertThrows"} ELSE {})

\* lines 621-648: the epoch asked for answers. No epoch: on to the next one,
\* and out of the loop below epoch 0. An epoch that began before the cutoff
\* ends the loop. Otherwise the upsert, counted unless it throws.
EsEpoch(k) ==
    /\ es[k].pc = "loop"
    /\ es[k].epochNum >= 0
    /\ \E how \in EpochOutcomes :
          LET ep   == platform.epoch[es[k].epochNum]
              next == [es EXCEPT ![k].epochNum = @ - 1]
              ret  == [Did("es:return") EXCEPT !.count = es[k].inserted,
                                               !.epoch = es[k].epochNum]
          IN  IF how = "fetchFails"
              THEN /\ budget' = Spend(1)
                   /\ IF es[k].epochNum = 0
                      THEN es' = Remove(es, k) /\ io' = ret
                      ELSE /\ es' = next
                           /\ io' = [Did("es:noEpoch") EXCEPT !.epoch = es[k].epochNum]
                   /\ UNCHANGED platformEpochFees
              ELSE IF StartsBeforeCutoff(ep.startTime)
              THEN /\ how = "ok"
                   /\ es' = Remove(es, k)
                   /\ io' = ret
                   /\ UNCHANGED <<budget, platformEpochFees>>
              ELSE IF how = "upsertThrows"
              THEN /\ budget' = Spend(1)
                   /\ es' = next
                   /\ io' = [Did("es:upsertFailed") EXCEPT !.epoch = es[k].epochNum,
                                                           !.delay = EpochDelay]
                   /\ UNCHANGED platformEpochFees
              ELSE /\ platformEpochFees' = UpsertEpoch(platformEpochFees, EpochValues(ep))
                   /\ es' = [next EXCEPT ![k].inserted = @ + 1]
                   /\ io' = [Did("es:upsert") EXCEPT !.upsert = EpochValues(ep),
                                                      !.epoch = es[k].epochNum,
                                                      !.delay = EpochDelay]
                   /\ UNCHANGED budget
    /\ UNCHANGED <<coreVars, platform>>

\* lines 621, 650-652: after the delay that follows epoch 0, the loop ends
EsReturn(k) ==
    /\ es[k].pc = "loop"
    /\ es[k].epochNum < 0
    /\ es' = Remove(es, k)
    /\ io' = [Did("es:return") EXCEPT !.count = es[k].inserted]
    /\ UNCHANGED <<coreVars, budget, platformEpochFees, platform>>

\* The current epoch collects fees
PlatformCollects ==
    /\ Allowed("fees")
    /\ budget' = Spend(1)
    /\ platform' = [platform EXCEPT !.epoch[platform.current].totalCollectedFees = @ + 1]
    /\ io' = NoIo
    /\ UNCHANGED <<coreVars, platformEpochFees, es>>

\* The explorer reports an epoch with another start, end and fee multiplier
\* than before
PlatformRevises ==
    /\ Allowed("revise")
    /\ budget' = Spend(1)
    /\ \E n \in DOMAIN platform.epoch :
          platform' = [platform EXCEPT
                          !.epoch[n].startTime = Ms(@.sec, 500),
                          !.epoch[n].endTime = Ms(@.sec, 500),
                          !.epoch[n].feeMultiplier = @ + 2]
    /\ io' = NoIo
    /\ UNCHANGED <<coreVars, platformEpochFees, es>>

\* A new epoch begins
PlatformAdvances ==
    /\ Allowed("epoch")
    /\ platform.current < MaxEpoch
    /\ budget' = Spend(1)
    /\ platform' = [platform EXCEPT
                       !.current = @ + 1,
                       !.epoch = [n \in 0..(platform.current + 1) |->
                                     IF n <= platform.current THEN @[n]
                                     ELSE Reported(n, platform.first)]]
    /\ io' = NoIo
    /\ UNCHANGED <<coreVars, platformEpochFees, es>>

-----------------------------------------------------------------------------
(* fetchMasternodeCounts *)

\* lines 201, 227, 240-246: the snapshot taken now
Snapshot(total, evo) ==
    [set |-> TRUE, enabled |-> total, evoEnabled |-> evo, fetchedAt |-> clock]

\* line 191
Fresh == cachedMnCounts.set /\ clock - cachedMnCounts.fetchedAt < MN_COUNT_CACHE_MS

\* Math.round(n / d), n >= 0 and d > 0
Round(n, d) == (2 * n + d) \div (2 * d)

\* What dashcentral.org answers: both counts, one of them missing, or nothing
DcAnswers ==
    {[ok |-> TRUE, unique |-> 10, weighted |-> 17],
     [ok |-> TRUE, unique |-> 10, weighted |-> 0],
     [ok |-> FALSE, unique |-> 0, weighted |-> 0]}

\* What the node answers to masternode count and protx list: counts, a count
\* without the enabled field, no masternode at all, or an error
RpcAnswers ==
    {[ok |-> TRUE, total |-> 12, enabled |-> 11, evo |-> 3],
     [ok |-> TRUE, total |-> 12, enabled |-> 0, evo |-> 3],
     [ok |-> TRUE, total |-> 0, enabled |-> 0, evo |-> 0],
     [ok |-> FALSE, total |-> 0, enabled |-> 0, evo |-> 0]}

\* What sync_state holds under masternode_counts: counts, counts without evo
\* nodes, or nothing that parses
SavedAnswers ==
    {[ok |-> TRUE, totalMasternodes |-> 13, evoNodes |-> 4],
     [ok |-> TRUE, totalMasternodes |-> 13, evoNodes |-> 0],
     [ok |-> FALSE, totalMasternodes |-> 0, evoNodes |-> 0]}

\* lines 195-252: the sources asked in order, the counts returned and whether
\* they become the snapshot
MnChain(dc, useRpc, rpc, saved) ==
    LET asked == <<"public">> \o (IF useRpc THEN <<"rpc">> ELSE <<>>)
    IN  IF dc.ok /\ dc.unique > 0 /\ dc.weighted > 0
        THEN [sources |-> <<"public">>, total |-> dc.unique,
              evo |-> Round(dc.weighted - dc.unique, 3), cache |-> TRUE]
        ELSE IF useRpc /\ rpc.ok
        THEN [sources |-> asked, total |-> NumberOr(rpc.enabled, rpc.total),
              evo |-> rpc.evo, cache |-> TRUE]
        ELSE IF saved.ok /\ saved.evoNodes > 0 /\ saved.totalMasternodes > 0
        THEN [sources |-> asked \o <<"saved">>, total |-> saved.totalMasternodes,
              evo |-> saved.evoNodes, cache |-> TRUE]
        ELSE [sources |-> asked \o <<"saved", "default">>, total |-> DefaultMasternodes,
              evo |-> DefaultEvoNodes, cache |-> FALSE]

\* lines 190-253, a whole call: the fresh snapshot, or the chain of sources
fetchMasternodeCounts ==
    /\ budget.calls > 0
    /\ budget' = [budget EXCEPT !.calls = @ - 1]
    /\ IF Fresh
       THEN /\ io' = [Did("mn:return") EXCEPT !.count = cachedMnCounts.enabled,
                                              !.evoNodes = cachedMnCounts.evoEnabled]
            /\ UNCHANGED <<cachedMnCounts, rpcAvailable>>
       ELSE \E dc \in DcAnswers, useRpc \in checkRpcAvailability,
               rpc \in RpcAnswers, saved \in SavedAnswers :
               \E r \in {MnChain(dc, useRpc, rpc, saved)} :
                  /\ io' = [Did("mn:return") EXCEPT
                               !.sources = r.sources,
                               !.count = r.total,
                               !.evoNodes = r.evo,
                               !.probes = IF Len(r.sources) > 1 THEN Probes ELSE 0]
                  /\ cachedMnCounts' = IF r.cache THEN Snapshot(r.total, r.evo)
                                       ELSE cachedMnCounts
                  /\ rpcAvailable' = IF Len(r.sources) > 1 THEN Verdict(useRpc)
                                     ELSE rpcAvailable
    /\ UNCHANGED <<blocks, syncState, backfillRunning, backfillProgress, bf, fs, tip, env,
                   killed, sub, epochVars, seed, clock>>

\* Time passes: a millisecond, or one less than the life of a snapshot
ClockAdvances ==
    /\ Allowed("time")
    /\ budget' = Spend(1)
    /\ \E d \in {1, MN_COUNT_CACHE_MS - 1} : clock' = clock + d
    /\ io' = NoIo
    /\ UNCHANGED <<blocks, syncState, backfillRunning, backfillProgress, rpcAvailable,
                   bf, fs, tip, env, killed, sub, epochVars, seed, cachedMnCounts>>

-----------------------------------------------------------------------------
(* Specifications *)

\* A cache as an earlier forward sync over the public source left it
Seeded(lo, hi) == {blockDataToRow(fetchBlockViaInsight(h, TRUE)) : h \in lo..hi}

AllKinds == {"fault", "stall", "throw", "kill", "import", "growth", "tick"}

ProcessStart ==
    /\ backfillRunning = FALSE
    /\ backfillProgress = InitialProgress
    /\ rpcAvailable = NULL
    /\ bf = <<>>
    /\ fs = <<>>
    /\ io = NoIo
    /\ killed = "no"

\* Clocks and cutoffs: the target falls on the oldest cached height, or three
\* heights below it with every block or only the first of them young enough
Scenarios ==
    {[now |-> JAN_1_2026_UNIX + 5 * SecondsPerBlock, cutH |-> superblockCycle - 6],
     [now |-> JAN_1_2026_UNIX + 7 * SecondsPerBlock + 1, cutH |-> superblockCycle - 6],
     [now |-> JAN_1_2026_UNIX + 7 * SecondsPerBlock + 1, cutH |-> superblockCycle + 1]}

Init ==
    /\ env \in {[rpcConfigured |-> r, now |-> sc.now, cutH |-> sc.cutH, kinds |-> AllKinds] :
                   r \in BOOLEAN, sc \in Scenarios}
    /\ tip = superblockCycle + 7
    /\ blocks = Seeded(superblockCycle + 2, superblockCycle + 7)
    /\ syncState = [k \in SyncKeys |-> <<>>]
    /\ budget = [events |-> MaxEvents, calls |-> MaxCalls]
    /\ ProcessStart
    /\ sub = NoSub
    /\ platformEpochFees = {}
    /\ es = <<>>
    /\ platform = NoPlatform
    /\ seed = NoSeed
    /\ cachedMnCounts = NoMnCache
    /\ clock = 0

Next ==
    \/ BfCall
    \/ \E c \in DOMAIN bf : BfReadMin(c)
    \/ \E c \in DOMAIN bf : BfGetTarget(c)
    \/ \E c \in DOMAIN bf : BfEstimate(c)
    \/ \E c \in DOMAIN bf : BfCheckRpc(c)
    \/ \E c \in DOMAIN bf : BfBatch(c)
    \/ \E c \in DOMAIN bf : BfFinish(c)
    \/ \E c \in DOMAIN bf : BfThrow(c)
    \/ FsCall
    \/ \E s \in DOMAIN fs : FsReadMax(s)
    \/ \E s \in DOMAIN fs : FsStatus(s)
    \/ \E s \in DOMAIN fs : FsBatch(s)
    \/ \E s \in DOMAIN fs : FsThrow(s)
    \/ ImportBackfill
    \/ ChainGrows
    \/ AvailabilityTick
    \/ Restart

Spec == Init /\ [][Next]_vars

SubsidyInit ==
    /\ env = [rpcConfigured |-> FALSE, now |-> JAN_1_2026_UNIX, cutH |-> 0, kinds |-> {}]
    /\ tip = 0
    /\ blocks = {}
    /\ syncState = [k \in SyncKeys |-> <<>>]
    /\ budget = [events |-> 0, calls |-> 0]
    /\ ProcessStart
    /\ sub \in {[NoSub EXCEPT !.h1 = h1, !.h2 = h2] :
                   h1 \in SubsidyHeights, h2 \in SubsidyHeights}
    /\ platformEpochFees = {}
    /\ es = <<>>
    /\ platform = NoPlatform
    /\ seed = NoSeed
    /\ cachedMnCounts = NoMnCache
    /\ clock = 0

SubsidyNext == SubsidyCompute \/ SubsidyPick

SpecSubsidy == SubsidyInit /\ [][SubsidyNext]_vars

\* The walk alone, with as many fully failed batches as the backoff needs
BackoffInit ==
    /\ env \in {[rpcConfigured |-> r, now |-> sc.now, cutH |-> sc.cutH,
                 kinds |-> {"stall"}] : r \in BOOLEAN, sc \in Scenarios}
    /\ tip = superblockCycle + 7
    /\ blocks = Seeded(superblockCycle + 2, superblockCycle + 7)
    /\ syncState = [k \in SyncKeys |-> <<>>]
    /\ budget = [events |-> BackoffStalls, calls |-> 1]
    /\ ProcessStart
    /\ sub = NoSub
    /\ platformEpochFees = {}
    /\ es = <<>>
    /\ platform = NoPlatform
    /\ seed = NoSeed
    /\ cachedMnCounts = NoMnCache
    /\ clock = 0

BackfillNext ==
    \/ BfCall
    \/ \E c \in DOMAIN bf : BfReadMin(c)
    \/ \E c \in DOMAIN bf : BfGetTarget(c)
    \/ \E c \in DOMAIN bf : BfEstimate(c)
    \/ \E c \in DOMAIN bf : BfCheckRpc(c)
    \/ \E c \in DOMAIN bf : BfBatch(c)
    \/ \E c \in DOMAIN bf : BfFinish(c)

SpecBackoff == BackoffInit /\ [][BackfillNext]_vars

\* A long walk, killed at any point and started again
LongInit ==
    /\ env \in {[rpcConfigured |-> r,
                 now |-> JAN_1_2026_UNIX + (LongWalk + 1) * SecondsPerBlock,
                 cutH |-> superblockCycle,
                 kinds |-> {"kill"}] : r \in BOOLEAN}
    /\ tip = 17001
    /\ blocks = Seeded(17000, 17001)
    /\ syncState = [k \in SyncKeys |-> <<>>]
    /\ budget = [events |-> 1, calls |-> 2]
    /\ ProcessStart
    /\ sub = NoSub
    /\ platformEpochFees = {}
    /\ es = <<>>
    /\ platform = NoPlatform
    /\ seed = NoSeed
    /\ cachedMnCounts = NoMnCache
    /\ clock = 0

LongNext == BackfillNext \/ Restart

SpecLong == LongInit /\ [][LongNext]_vars

\* The walk with fetches that fail without limit: the event loop runs every
\* continuation that is ready, and a batch that keeps being retried is
\* in the end served without a failed fetch
LiveInit ==
    /\ env \in {[rpcConfigured |-> r, now |-> sc.now, cutH |-> sc.cutH,
                 kinds |-> {"fault", "stall"}] : r \in BOOLEAN, sc \in Scenarios}
    /\ tip = superblockCycle + 7
    /\ blocks = Seeded(superblockCycle + 2, superblockCycle + 7)
    /\ syncState = [k \in SyncKeys |-> <<>>]
    /\ budget = [events |-> -1, calls |-> MaxCalls]
    /\ ProcessStart
    /\ sub = NoSub
    /\ platformEpochFees = {}
    /\ es = <<>>
    /\ platform = NoPlatform
    /\ seed = NoSeed
    /\ cachedMnCounts = NoMnCache
    /\ clock = 0

BfStep ==
    \/ \E c \in DOMAIN bf : BfReadMin(c)
    \/ \E c \in DOMAIN bf : BfGetTarget(c)
    \/ \E c \in DOMAIN bf : BfEstimate(c)
    \/ \E c \in DOMAIN bf : BfCheckRpc(c)
    \/ \E c \in DOMAIN bf : BfFinish(c)

BfBatchServed == \E c \in DOMAIN bf : BfBatch(c) /\ io'.failed = {}

\* The loop condition of line 499: when BfBatch can be taken
BatchReady ==
    \E c \in DOMAIN bf :
        bf[c].pc = "loop" /\ bf[c].currentHeight >= bf[c].targetHeight /\ backfillRunning

\* Weak fairness of the code's steps, and of the served batch spelled out with
\* BatchReady, the state predicate that says when a batch can be served
LiveSpec ==
    /\ LiveInit
    /\ [][BackfillNext]_vars
    /\ WF_vars(BfStep)
    /\ ([]<>(~BatchReady) \/ []<><<BfBatchServed>>_vars)

\* Forward sync alone: over a cache that is empty, level with the chain or
\* more than the cap behind it
ForwardInit ==
    /\ env \in {[rpcConfigured |-> r, now |-> JAN_1_2026_UNIX + 5 * SecondsPerBlock,
                 cutH |-> superblockCycle - 6,
                 kinds |-> {"growth"}] : r \in BOOLEAN}
    /\ tip \in {superblockCycle + 7, superblockCycle + 7 + ForwardCap + 1}
    /\ blocks \in {{}, Seeded(superblockCycle + 2, superblockCycle + 7)}
    /\ syncState = [k \in SyncKeys |-> <<>>]
    /\ budget = [events |-> MaxEvents, calls |-> 1]
    /\ ProcessStart
    /\ sub = NoSub
    /\ platformEpochFees = {}
    /\ es = <<>>
    /\ platform = NoPlatform
    /\ seed = NoSeed
    /\ cachedMnCounts = NoMnCache
    /\ clock = 0

ForwardNext ==
    \/ FsCall
    \/ \E s \in DOMAIN fs : FsReadMax(s)
    \/ \E s \in DOMAIN fs : FsStatus(s)
    \/ \E s \in DOMAIN fs : FsBatch(s)
    \/ ChainGrows

SpecForward == ForwardInit /\ [][ForwardNext]_vars

\* Backfill and forward sync over a growing chain, with restarts; the target
\* is not saved yet, or was saved by an earlier process when the cached
\* maximum was lower than it is now
TargetInit ==
    /\ env \in {[rpcConfigured |-> r, now |-> sc.now, cutH |-> sc.cutH,
                 kinds |-> {"growth", "kill"}] :
                    r \in BOOLEAN, sc \in {x \in Scenarios : x.cutH < superblockCycle}}
    /\ tip = superblockCycle + 7
    /\ blocks = Seeded(superblockCycle + 2, superblockCycle + 7)
    /\ syncState \in {[k \in SyncKeys |-> <<>>],
                      [k \in SyncKeys |->
                          IF k = "backfill_target_height" THEN StringOf(superblockCycle)
                          ELSE <<>>]}
    /\ budget = [events |-> MaxEvents, calls |-> MaxCalls]
    /\ ProcessStart
    /\ sub = NoSub
    /\ platformEpochFees = {}
    /\ es = <<>>
    /\ platform = NoPlatform
    /\ seed = NoSeed
    /\ cachedMnCounts = NoMnCache
    /\ clock = 0

TargetNext ==
    \/ BackfillNext
    \/ FsCall
    \/ \E s \in DOMAIN fs : FsReadMax(s)
    \/ \E s \in DOMAIN fs : FsStatus(s)
    \/ \E s \in DOMAIN fs : FsBatch(s)
    \/ ChainGrows
    \/ Restart

SpecTarget == TargetInit /\ [][TargetNext]_vars

\* A long walk over the public source, with fetches and store calls that fail
CheckpointInit ==
    /\ env = [rpcConfigured |-> FALSE,
              now |-> JAN_1_2026_UNIX + (LongWalk + 1) * SecondsPerBlock,
              cutH |-> superblockCycle,
              kinds |-> {"fault", "throw"}]
    /\ tip = 17001
    /\ blocks = Seeded(17000, 17001)
    /\ syncState = [k \in SyncKeys |-> <<>>]
    /\ budget = [events |-> MaxEvents, calls |-> 1]
    /\ ProcessStart
    /\ sub = NoSub
    /\ platformEpochFees = {}
    /\ es = <<>>
    /\ platform = NoPlatform
    /\ seed = NoSeed
    /\ cachedMnCounts = NoMnCache
    /\ clock = 0

CheckpointNext == BackfillNext \/ \E c \in DOMAIN bf : BfThrow(c)

SpecCheckpoint == CheckpointInit /\ [][CheckpointNext]_vars

\* Forward sync over a chain three blocks ahead of the cache, with status
\* queries and fetches that fail
FaultyInit ==
    /\ env \in {[rpcConfigured |-> r, now |-> JAN_1_2026_UNIX + 5 * SecondsPerBlock,
                 cutH |-> superblockCycle - 6,
                 kinds |-> {"fault"}] : r \in BOOLEAN}
    /\ tip = superblockCycle + 10
    /\ blocks = Seeded(superblockCycle + 2, superblockCycle + 7)
    /\ syncState = [k \in SyncKeys |-> <<>>]
    /\ budget = [events |-> MaxEvents, calls |-> MaxCalls]
    /\ ProcessStart
    /\ sub = NoSub
    /\ platformEpochFees = {}
    /\ es = <<>>
    /\ platform = NoPlatform
    /\ seed = NoSeed
    /\ cachedMnCounts = NoMnCache
    /\ clock = 0

FaultyNext ==
    \/ FsCall
    \/ \E s \in DOMAIN fs : FsReadMax(s)
    \/ \E s \in DOMAIN fs : FsStatus(s)
    \/ \E s \in DOMAIN fs : FsBatch(s)

SpecFaulty == FaultyInit /\ [][FaultyNext]_vars

\* Both controllers with credentials and a privileged source that answers the
\* probe and may be down for any batch afterwards; the chain is five blocks
\* ahead of the cache and the target three heights below it
RpcDownInit ==
    /\ env = [rpcConfigured |-> TRUE, now |-> JAN_1_2026_UNIX + 7 * SecondsPerBlock + 1,
              cutH |-> superblockCycle - 6, kinds |-> {"rpcdown"}]
    /\ tip = superblockCycle + 12
    /\ blocks = Seeded(superblockCycle + 2, superblockCycle + 7)
    /\ syncState = [k \in SyncKeys |-> <<>>]
    /\ budget = [events |-> 0, calls |-> MaxCalls]
    /\ ProcessStart
    /\ sub = NoSub
    /\ platformEpochFees = {}
    /\ es = <<>>
    /\ platform = NoPlatform
    /\ seed = NoSeed
    /\ cachedMnCounts = NoMnCache
    /\ clock = 0

RpcDownNext ==
    \/ BackfillNext
    \/ FsCall
    \/ \E s \in DOMAIN fs : FsReadMax(s)
    \/ \E s \in DOMAIN fs : FsStatus(s)
    \/ \E s \in DOMAIN fs : FsBatch(s)

SpecRpcDown == RpcDownInit /\ [][RpcDownNext]_vars

\* The process after registerRoutes with a privileged source: the startup loop
\* awaits its first syncNewCoreBlocks call while the route /api/sync
\* (part_002:430-437) can start another one and the chain grows; the cache is
\* empty or as an earlier process left it, one block behind the chain, so
\* that the first attempt of the startup loop stores a block
OverlapInit ==
    /\ env = [rpcConfigured |-> TRUE, now |-> JAN_1_2026_UNIX + 12 * SecondsPerBlock,
              cutH |-> superblockCycle - 4, kinds |-> {"growth"}]
    /\ tip = superblockCycle + 8
    /\ blocks \in {{}, Seeded(superblockCycle + 2, superblockCycle + 7)}
    /\ syncState = [k \in SyncKeys |-> <<>>]
    /\ budget = [events |-> MaxEvents, calls |-> 1]
    /\ backfillRunning = FALSE
    /\ backfillProgress = InitialProgress
    /\ rpcAvailable = NULL
    /\ bf = <<>>
    /\ fs = <<SeedCall>>
    /\ io = NoIo
    /\ killed = "no"
    /\ sub = NoSub
    /\ platformEpochFees = {}
    /\ es = <<>>
    /\ platform = NoPlatform
    /\ seed = FirstSeed
    /\ cachedMnCounts = NoMnCache
    /\ clock = 0

OverlapNext ==
    \/ SeedResume
    \/ FsCall
    \/ \E s \in DOMAIN fs : FsReadMax(s)
    \/ \E s \in DOMAIN fs : FsStatus(s)
    \/ \E s \in DOMAIN fs : FsBatch(s)
    \/ \E c \in DOMAIN bf : BfReadMin(c)
    \/ \E c \in DOMAIN bf : BfGetTarget(c)
    \/ \E c \in DOMAIN bf : BfEstimate(c)
    \/ \E c \in DOMAIN bf : BfCheckRpc(c)
    \/ \E c \in DOMAIN bf : BfBatch(c)
    \/ \E c \in DOMAIN bf : BfFinish(c)
    \/ ChainGrows

SpecOverlap == OverlapInit /\ [][OverlapNext]_vars

\* The masternode-count query of the routes (part_002:239, 321), while time
\* passes and the verdict is forgotten
MnInit ==
    /\ env \in {[rpcConfigured |-> r, now |-> JAN_1_2026_UNIX, cutH |-> 0,
                 kinds |-> {"time", "tick"}] : r \in BOOLEAN}
    /\ tip = 0
    /\ blocks = {}
    /\ syncState = [k \in SyncKeys |-> <<>>]
    /\ budget = [events |-> MaxEvents + 2, calls |-> MaxCalls + 1]
    /\ ProcessStart
    /\ sub = NoSub
    /\ platformEpochFees = {}
    /\ es = <<>>
    /\ platform = NoPlatform
    /\ seed = NoSeed
    /\ cachedMnCounts = NoMnCache
    /\ clock = 0

MnNext == fetchMasternodeCounts \/ ClockAdvances \/ AvailabilityTick

SpecMn == MnInit /\ [][MnNext]_vars

\* Calls of startCoreBackfill and syncNewCoreBlocks on a cache that starts empty
EmptyInit ==
    /\ env = [rpcConfigured |-> FALSE, now |-> JAN_1_2026_UNIX + 5 * SecondsPerBlock,
              cutH |-> superblockCycle - 6, kinds |-> {"throw", "kill"}]
    /\ tip = superblockCycle + 7
    /\ blocks = {}
    /\ syncState = [k \in SyncKeys |-> <<>>]
    /\ budget = [events |-> MaxEvents, calls |-> MaxCalls]
    /\ ProcessStart
    /\ sub = NoSub
    /\ platformEpochFees = {}
    /\ es = <<>>
    /\ platform = NoPlatform
    /\ seed = NoSeed
    /\ cachedMnCounts = NoMnCache
    /\ clock = 0

EmptyNext ==
    \/ BfCall
    \/ \E c \in DOMAIN bf : BfReadMin(c)
    \/ \E c \in DOMAIN bf : BfThrow(c)
    \/ FsCall
    \/ \E s \in DOMAIN fs : FsReadMax(s)
    \/ \E s \in DOMAIN fs : FsStatus(s)
    \/ \E s \in DOMAIN fs : FsBatch(s)
    \/ Restart

SpecEmpty == EmptyInit /\ [][EmptyNext]_vars

\* The walk with the stop signal
StopInit ==
    /\ env \in {[rpcConfigured |-> r, now |-> sc.now, cutH |-> sc.cutH,
                 kinds |-> {"stop"}] : r \in BOOLEAN, sc \in Scenarios}
    /\ tip = superblockCycle + 7
    /\ blocks = Seeded(superblockCycle + 2, superblockCycle + 7)
    /\ syncState = [k \in SyncKeys |-> <<>>]
    /\ budget = [events |-> MaxEvents, calls |-> MaxCalls]
    /\ ProcessStart
    /\ sub = NoSub
    /\ platformEpochFees = {}
    /\ es = <<>>
    /\ platform = NoPlatform
    /\ seed = NoSeed
    /\ cachedMnCounts = NoMnCache
    /\ clock = 0

StopNext == BackfillNext \/ StopBackfill

SpecStop == StopInit /\ [][StopNext]_vars

\* The process as registerRoutes leaves it (part_002:441-450): the startup
\* loop awaits its first syncNewCoreBlocks call, and nothing but the startup
\* loop calls startCoreBackfill. The cache is empty or as an earlier process
\* left it; the status sources may be out for any number of attempts. The
\* syncNewCoreBlocks calls of the interval and of the route are left to the
\* other specifications: they call no startCoreBackfill
StartupInit ==
    /\ env \in {[rpcConfigured |-> r, now |-> JAN_1_2026_UNIX + 7 * SecondsPerBlock,
                 cutH |-> superblockCycle - 6,
                 kinds |-> {"outage", "throw", "growth"}] : r \in BOOLEAN}
    /\ tip = superblockCycle + 7
    /\ blocks \in {{}, Seeded(superblockCycle + 2, superblockCycle + 7)}
    /\ syncState = [k \in SyncKeys |-> <<>>]
    /\ budget = [events |-> MaxEvents, calls |-> 0]
    /\ backfillRunning = FALSE
    /\ backfillProgress = InitialProgress
    /\ rpcAvailable = NULL
    /\ bf = <<>>
    /\ fs = <<SeedCall>>
    /\ io = NoIo
    /\ killed = "no"
    /\ sub = NoSub
    /\ platformEpochFees = {}
    /\ es = <<>>
    /\ platform = NoPlatform
    /\ seed = FirstSeed
    /\ cachedMnCounts = NoMnCache
    /\ clock = 0

StartupNext ==
    \/ SeedResume
    \/ SeedRetry
    \/ \E s \in DOMAIN fs : FsReadMax(s)
    \/ \E s \in DOMAIN fs : FsStatus(s)
    \/ \E s \in DOMAIN fs : FsBatch(s)
    \/ \E s \in DOMAIN fs : FsThrow(s)
    \/ \E c \in DOMAIN bf : BfReadMin(c)
    \/ \E c \in DOMAIN bf : BfGetTarget(c)
    \/ \E c \in DOMAIN bf : BfEstimate(c)
    \/ \E c \in DOMAIN bf : BfCheckRpc(c)
    \/ \E c \in DOMAIN bf : BfBatch(c)
    \/ \E c \in DOMAIN bf : BfFinish(c)
    \/ \E c \in DOMAIN bf : BfThrow(c)
    \/ ChainGrows

SpecStartup == StartupInit /\ [][StartupNext]_vars

-----------------------------------------------------------------------------
(* Properties *)

\* C1: at most one startCoreBackfill call is past the guard at any time, and a
\* call made while one is in progress returns at once: it issues no fetch,
\* inserts no row and leaves the call in progress, backfillProgress, the flag
\* and both tables as they are.
C1_ExclusiveRun ==
    [][/\ Len(bf') <= 1
       /\ (/\ io'.ev \in {"bf:skipped", "bf:started"}
           /\ budget'.calls < budget.calls
           /\ Len(bf) >= 1)
          => /\ io'.ev = "bf:skipped"
             /\ io'.fetched = {}
             /\ io'.inserts = {}
             /\ UNCHANGED <<bf, blocks, syncState, backfillProgress, backfillRunning>>]_vars

C1_Witness == io.ev = "bf:skipped" /\ Len(bf) = 1 /\ bf[1].pc = "loop"

\* C2 as stated, for the walks in which no block is older than the cutoff: a
\* walk that ended with status complete leaves the oldest cached height at or
\* below the target.
C2_OldestReachesTarget ==
    (/\ io.ev = "bf:walked"
     /\ backfillProgress.status = "complete"
     /\ env.cutH <= backfillProgress.targetHeight)
        => MinHeight(blocks) <= backfillProgress.targetHeight

\* C3: when the oldest cached height read by the call is at or below the
\* target, the step that learns the target sets status complete, clears the
\* flag and ends the call; it issues no fetch and inserts no row.
C3_CompleteAtOnce ==
    [][(/\ Len(bf) = 1
        /\ bf[1].pc \in {"getTarget", "estimate"}
        /\ io'.ev \in {"bf:complete", "bf:begin"}
        /\ bf[1].oldestCached
               <= parseInt(getSyncValue(syncState', "backfill_target_height")))
       => /\ backfillProgress'.status = "complete"
          /\ ~backfillRunning'
          /\ bf' = <<>>
          /\ io'.fetched = {}
          /\ io'.inserts = {}
          /\ blocks' = blocks]_vars

C3_Witness ==
    /\ io.ev = "bf:complete"
    /\ backfillProgress.status = "complete"
    /\ MinHeight(blocks)
           <= parseInt(getSyncValue(syncState, "backfill_target_height"))

\* C4 as stated: a walk that ended with status complete has
\* totalDone = totalNeeded.
C4_TotalDoneIsTotalNeeded ==
    (io.ev = "bf:walked" /\ backfillProgress.status = "complete")
        => backfillProgress.totalDone = backfillProgress.totalNeeded

\* C5 as stated: the walk of the first run after a kill in mid-walk begins at
\* the height of the backfill_oldest_height checkpoint.
C5_ResumesAtCheckpoint ==
    \A c \in DOMAIN bf :
        (/\ killed = "midWalk"
         /\ bf[c].pc \in {"checkRpc", "loop"}
         /\ bf[c].currentHeight = bf[c].oldestCached - 1
         /\ getSyncValue(syncState, "backfill_oldest_height") # <<>>)
        => bf[c].currentHeight
               = parseInt(getSyncValue(syncState, "backfill_oldest_height"))

\* C6: a batch that did not advance raises the failure counter by one and
\* waits 2000 ms (privileged) or 15000 ms (public) times min(counter, 6): more
\* than the wait before it up to the sixth failure, the same from then on. A
\* batch that advanced sets the counter to 0, so that the next failure is the
\* first again.
C6_BackoffGrowth ==
    [][\A c \in DOMAIN bf \cap DOMAIN bf' :
          (bf[c].pc = "loop" /\ bf'[c].pc = "loop" /\ io'.ev = "bf:batch")
          => LET n    == bf[c].consecutiveErrors
                 m    == bf'[c].consecutiveErrors
                 base == IF bf[c].useRpc THEN 2000 ELSE 15000
             IN  IF bf'[c].currentHeight = bf[c].currentHeight
                 THEN /\ m = n + 1
                      /\ bf'[c].backoff = base * (IF m <= 6 THEN m ELSE 6)
                      /\ (n >= 1 /\ m <= 6) => bf'[c].backoff > bf[c].backoff
                      /\ n >= 6 => bf'[c].backoff = bf[c].backoff
                 ELSE m = 0 /\ bf'[c].backoff = 0]_vars

C6_Witness ==
    \E c \in DOMAIN bf :
        /\ bf[c].consecutiveErrors = 7
        /\ bf[c].backoff = 6 * (IF bf[c].useRpc THEN 2000 ELSE 15000)

\* C7: no step removes or changes a row of the block cache, and the cache never
\* holds two rows with one hash.
C7_InsertOnly ==
    [][/\ \A r \in blocks : r \in blocks'
       /\ \A r \in blocks' : \A q \in blocks' : r.hash = q.hash => r = q]_vars

C7_Witness ==
    /\ io.ev = "import"
    /\ \E r \in FileRows : HasHash(blocks, r.hash) /\ r \notin blocks

\* C8 as stated: insertBlockRow returns true only for a row that was newly
\* inserted.
C8_TrueOnlyWhenNew == \A e \in io.inserts : e.ret => e.new

\* C9 as stated: every stored row at a superblock height has totalFees 0.
C9_SuperblockFeesZero ==
    \A r \in blocks : r.height % 16616 = 0 => r.totalFees = <<0, 1>>

\* C10: the subsidy is 5 below the first reduction, the same for two heights of
\* one reduction era, and 13/14 of the subsidy one reduction interval earlier.
C10_SubsidyDecay ==
    sub.done =>
        /\ sub.h1 < 210240 => sub.s1 = <<5, 1>>
        /\ (sub.h1 < sub.h2 /\ sub.h1 \div 210240 = sub.h2 \div 210240)
               => sub.s1 = sub.s2
        /\ sub.h2 = sub.h1 + 210240 => sub.s2 = RatMul(sub.s1, <<13, 14>>)

C10_Witness ==
    /\ sub.done
    /\ sub.h1 >= 210240
    /\ sub.h2 = sub.h1 + 210240
    /\ RatLess(sub.s2, sub.s1)

\* C11: a syncNewCoreBlocks call that read a cached maximum at or above the
\* chain height returns 0 from the step that queries the chain height: it
\* requests no block, leaves the cache as it is and sends at most the one
\* liveness probe of the source selector besides the status query.
C11_ForwardNoOp ==
    [][\A s \in DOMAIN fs :
          (/\ fs[s].pc = "status"
           /\ fs[s].highestCached # 0
           /\ fs[s].highestCached >= tip
           /\ io'.ev # "restart"
           /\ \/ fs' = Remove(fs, s)
              \/ Len(fs') = Len(fs) /\ fs'[s] # fs[s])
          => /\ fs' = Remove(fs, s)
             /\ io'.ev = "fs:return"
             /\ io'.count = 0
             /\ io'.fetched = {}
             /\ io'.nAsked = 0
             /\ io'.probes <= 1
             /\ blocks' = blocks]_vars

C11_Witness ==
    /\ io.ev = "fs:return"
    /\ io.live # 0
    /\ io.cachedMax >= io.live
    /\ io.count = 0
    /\ io.fetched = {}

\* C12 as stated: the value a syncNewCoreBlocks call returns is the number of
\* rows the call added to the cache.
C12_ReturnsRowsAdded == io.ev = "fs:return" => io.count = io.added

\* C13 as stated: a call that found the chain ahead of the cached maximum (0
\* for an empty cache) has requested the min(chain height - cached maximum, 50)
\* most recent heights, each once.
C13_RequestsMinOfGapAndCap ==
    (io.ev = "fs:return" /\ io.live # 0 /\ io.live > io.cachedMax)
        => LET k == IF io.live - io.cachedMax <= 50 THEN io.live - io.cachedMax ELSE 50
           IN  /\ io.asked = (io.live - k + 1)..io.live
               /\ io.nAsked = k

\* C13, amended: over a cache that is not empty the call has requested the
\* min(chain height - cached maximum, 50) most recent heights, over an empty
\* cache the 20 most recent heights; each height once, never more than 50.
C13_RequestsMostRecent ==
    (io.ev = "fs:return" /\ io.live # 0 /\ io.live > io.cachedMax)
        => LET gap == io.live - io.cachedMax
               k   == IF io.cachedMax = 0 THEN 20
                      ELSE IF gap <= 50 THEN gap ELSE 50
           IN  /\ io.asked = (io.live - k + 1)..io.live
               /\ io.nAsked = k
               /\ io.nAsked <= 50

C13_Witness ==
    /\ io.ev = "fs:return"
    /\ io.cachedMax # 0
    /\ io.live - io.cachedMax > 50
    /\ io.nAsked = 50

\* C14 as stated, for the states in which no call is in progress: every height
\* between the cached minimum and the cached maximum is in the cache.
C14_GapFree ==
    (fs = <<>> /\ bf = <<>> /\ blocks # {})
        => \A h \in MinHeight(blocks)..MaxHeight(blocks) : h \in Heights(blocks)

\* C16 as stated: every invalidation tick leaves the cached verdict unknown.
C16_TickResetsVerdict == [][io'.ev = "tick" => rpcAvailable' = NULL]_vars

\* C17: a step that settles an unknown verdict leaves it true or false; without
\* credentials it leaves it false and sends no probe, with credentials each
\* check sends a probe; a known verdict is returned as it is, without a probe; the
\* value returned to the walk is the verdict.
C17_VerdictIsBoolean ==
    [][/\ (rpcAvailable = NULL /\ rpcAvailable' # NULL)
          => /\ rpcAvailable' \in {"true", "false"}
             /\ ~env.rpcConfigured => (rpcAvailable' = "false" /\ io'.probes = 0)
             /\ env.rpcConfigured => io'.probes >= 1
       /\ (rpcAvailable # NULL /\ io'.ev \notin {"tick", "restart"})
          => (rpcAvailable' = rpcAvailable /\ io'.probes = 0)
       /\ \A c \in DOMAIN bf \cap DOMAIN bf' :
             (bf[c].pc = "checkRpc" /\ bf'[c].pc = "loop")
             => bf'[c].useRpc = (rpcAvailable' = "true")]_vars

C17_Witness ==
    /\ ~env.rpcConfigured
    /\ rpcAvailable = "false"
    /\ io.probes = 0
    /\ Len(bf) = 1
    /\ bf[1].pc = "loop"

\* C18: for every block requested by a batch, the privileged source is queried
\* first when the verdict is true and not at all when it is false, the public
\* source is queried after the privileged one only when that one failed, and
\* the fetch fails only if every source queried failed.
C18_SourceOrder ==
    \A h \in DOMAIN io.tried :
        LET t == io.tried[h]
        IN  /\ Len(t) >= 1
            /\ rpcAvailable = "true" => t[1].src = "rpc"
            /\ rpcAvailable # "true" => \A i \in DOMAIN t : t[i].src # "rpc"
            /\ \A i \in DOMAIN t :
                  (t[i].src = "insight" /\ rpcAvailable = "true")
                  => (i = 2 /\ ~t[1].ok)
            /\ h \in io.failed => \A i \in DOMAIN t : ~t[i].ok

C18_Witness ==
    \E h \in DOMAIN io.tried :
        /\ Len(io.tried[h]) = 2
        /\ io.tried[h][1].src = "rpc"
        /\ io.tried[h][2].ok

\* C20: every row a backfill batch adds has a time at or after the cutoff, and
\* a block it fetched with an earlier time is not added.
C20_CutoffOnInsert ==
    [][io'.ev = "bf:batch"
       => /\ \A r \in blocks' \ blocks : r.time >= 1767225600
          /\ \A h \in io'.fetched :
                ChainTime(h) < 1767225600
                => \A r \in blocks' \ blocks : r.height # h]_vars

C20_Witness ==
    /\ io.ev = "bf:batch"
    /\ \E h \in io.fetched \ io.failed :
          ChainTime(h) < 1767225600 /\ h \notin Heights(blocks)

\* C19: once backfill_target_height is saved no step changes it; a run that
\* begins its walk walks to the saved target, and a run that is complete at
\* once has compared the oldest cached height with the saved target.
C19_TargetNeverDrifts ==
    [][LET saved == getSyncValue(syncState, "backfill_target_height")
       IN  saved # <<>>
           => /\ getSyncValue(syncState', "backfill_target_height") = saved
              /\ io'.ev = "bf:begin"
                 => /\ backfillProgress'.targetHeight = parseInt(saved)
                    /\ \E c \in DOMAIN bf' :
                          /\ bf'[c].pc = "checkRpc"
                          /\ bf'[c].targetHeight = parseInt(saved)
              /\ io'.ev = "bf:complete"
                 => \E c \in DOMAIN bf : bf[c].oldestCached <= parseInt(saved)]_vars

C19_Witness ==
    /\ io.ev = "bf:begin"
    /\ getSyncValue(syncState, "backfill_target_height") # <<>>
    /\ backfillProgress.targetHeight
           = parseInt(getSyncValue(syncState, "backfill_target_height"))
    /\ MaxHeight(blocks) - CeilDiv(env.now - 1767225600, 150)
           # backfillProgress.targetHeight

\* The epoch sync alone: the explorer at epoch 0 or further on, with the first
\* epochs before or after the cutoff; fees collected, reports revised, new
\* epochs, failed fetches and failed upserts in between
EpochInit ==
    /\ env = [rpcConfigured |-> FALSE, now |-> JAN_1_2026_UNIX, cutH |-> 0,
              kinds |-> {"fault", "throw", "fees", "revise", "epoch"}]
    /\ tip = 0
    /\ blocks = {}
    /\ syncState = [k \in SyncKeys |-> <<>>]
    /\ budget = [events |-> MaxEvents, calls |-> MaxCalls]
    /\ ProcessStart
    /\ sub = NoSub
    /\ platformEpochFees = {}
    /\ es = <<>>
    /\ platform \in {History(c, first) : c \in {0, MaxEpoch - 1}, first \in {0, 1}}
    /\ seed = NoSeed
    /\ cachedMnCounts = NoMnCache
    /\ clock = 0

EpochNext ==
    \/ EsCall
    \/ \E k \in DOMAIN es : EsStatus(k)
    \/ \E k \in DOMAIN es : EsEpoch(k)
    \/ \E k \in DOMAIN es : EsReturn(k)
    \/ PlatformCollects
    \/ PlatformRevises
    \/ PlatformAdvances

SpecEpoch == EpochInit /\ [][EpochNext]_vars

\* C15: an upsert of an epoch that is already stored leaves exactly one row
\* with that epochNumber, whose totalCollectedFees and endTime are the values
\* of this sync and whose startTime and feeMultiplier are those of the row as
\* it was stored before.
C15_UpsertKeepsFirstStored ==
    [][io'.ev = "es:upsert"
       => \A old \in platformEpochFees :
             old.epochNumber = io'.upsert.epochNumber
             => /\ Cardinality({r \in platformEpochFees' :
                                   r.epochNumber = old.epochNumber}) = 1
                /\ \A r \in platformEpochFees' :
                      r.epochNumber = old.epochNumber
                      => /\ r.totalCollectedFees = io'.upsert.totalCollectedFees
                         /\ r.endTime = io'.upsert.endTime
                         /\ r.startTime = old.startTime
                         /\ r.feeMultiplier = old.feeMultiplier]_vars

C15_Witness ==
    /\ io.ev = "es:upsert"
    /\ \E r \in platformEpochFees :
          /\ r.epochNumber = io.upsert.epochNumber
          /\ r.endTime = io.upsert.endTime
          /\ r.totalCollectedFees = io.upsert.totalCollectedFees
          /\ r.startTime # io.upsert.startTime
          /\ r.feeMultiplier # io.upsert.feeMultiplier

\* C21 as stated: startCoreBackfill is not called at startup while the cache
\* is empty.
C21_BackfillAfterSeed ==
    (seed.pc = "done" /\ io.ev \in {"bf:started", "bf:skipped"}) => blocks # {}

\* C28 as stated, for the states in which a run has ended with status error or
\* paused and no run is in progress: a call of startCoreBackfill is still
\* ahead.
C28_InvocationAhead ==
    (backfillProgress.status \in {"error", "paused"} /\ bf = <<>>)
        => seed.pc # "done"

\* C22: a step in which the run throws sets status error, ends the call and
\* clears the flag; and every step that ends a startCoreBackfill call, however
\* it ends, leaves the flag false.
C22_ErrorEndsRun ==
    [][/\ io'.ev = "bf:error"
          => /\ backfillProgress'.status = "error"
             /\ Len(bf') = Len(bf) - 1
             /\ ~backfillRunning'
       /\ Len(bf') < Len(bf) => ~backfillRunning']_vars

C22_Witness ==
    /\ io.ev = "bf:error"
    /\ backfillProgress.status = "error"
    /\ ~backfillRunning
    /\ bf = <<>>

\* C23 as stated: a batch of the walk in which a fetch succeeded sets the
\* failure counter to 0 and moves the cursor down by the batch size.
C23_SuccessAdvances ==
    [][\A c \in DOMAIN bf \cap DOMAIN bf' :
          (/\ bf[c].pc = "loop"
           /\ io'.ev = "bf:batch"
           /\ io'.fetched # io'.failed)
          => /\ bf'[c].consecutiveErrors = 0
             /\ bf'[c].currentHeight
                    = bf[c].currentHeight - (IF bf[c].useRpc THEN 20 ELSE 2)]_vars

\* C24: a batch of the walk in which every fetch failed raises the failure
\* counter by one and leaves the cursor, the other locals of the call,
\* backfillProgress, the cache and sync_state as they are; the batch after it
\* requests the same heights.
C24_FailedBatchFrame ==
    [][\A c \in DOMAIN bf \cap DOMAIN bf' :
          /\ (/\ bf[c].pc = "loop"
              /\ io'.ev = "bf:batch"
              /\ io'.failed = io'.fetched)
             => /\ bf'[c] = [bf[c] EXCEPT !.consecutiveErrors = @ + 1,
                                         !.backoff = bf'[c].backoff]
                /\ blocks' = blocks
                /\ syncState' = syncState
                /\ backfillProgress' = backfillProgress
          /\ (/\ io.ev = "bf:batch"
              /\ io.failed = io.fetched
              /\ io'.ev = "bf:batch")
             => io'.fetched = io.fetched]_vars

C24_Witness ==
    /\ io.ev = "bf:batch"
    /\ io.fetched # {}
    /\ io.failed = io.fetched
    /\ Len(bf) = 1
    /\ bf[1].consecutiveErrors = 1
    /\ backfillProgress.totalDone = 0

\* C25 as stated: a walk that ends because the flag was cleared while heights
\* down to the target were still to be requested ends with status paused and
\* with the cursor saved as backfill_oldest_height; and status complete is set
\* only by a walk whose cursor has passed the target.
C25_StopPauses ==
    [][\A c \in DOMAIN bf :
          (bf[c].pc = "loop" /\ io'.ev = "bf:walked" /\ bf' = Remove(bf, c))
          => /\ (~backfillRunning /\ bf[c].currentHeight >= bf[c].targetHeight)
                => /\ backfillProgress'.status = "paused"
                   /\ getSyncValue(syncState', "backfill_oldest_height")
                          = StringOf(bf[c].currentHeight)
             /\ backfillProgress'.status = "complete"
                => bf[c].currentHeight < bf[c].targetHeight]_vars

\* C26 as stated: no two startCoreBackfill calls are in their walk at the
\* same time.
C26_NoOverlapAfterStop ==
    \A c \in DOMAIN bf : \A d \in DOMAIN bf :
        (c # d) => ~(bf[c].pc = "loop" /\ bf[d].pc = "loop")

\* C27 as stated: a batch of the walk that takes the number of rows inserted
\* by the run to a multiple of 200 or past one, and after which heights are
\* still to be requested, saves its cursor as backfill_oldest_height.
C27_CheckpointEvery200 ==
    [][\A c \in DOMAIN bf \cap DOMAIN bf' :
          (/\ bf[c].pc = "loop"
           /\ io'.ev = "bf:batch"
           /\ bf'[c].totalInserted \div 200 > bf[c].totalInserted \div 200
           /\ bf'[c].currentHeight >= bf'[c].targetHeight)
          => getSyncValue(syncState', "backfill_oldest_height")
                 = StringOf(bf'[c].currentHeight)]_vars

\* C29: a syncNewCoreBlocks call whose status query got no height from any
\* source returns 0 in that step, requests no block and leaves the cache as it
\* is; and in every batch of a call each block that was fetched is handed to
\* the insert and is in the cache afterwards unless that insert threw, whatever
\* other fetches of the batch failed, and the call goes on to its next batch.
C29_StatusFailureAndSkips ==
    [][/\ (io'.statusTried # <<>> /\ io'.height = 0)
             => /\ \E s \in DOMAIN fs : fs[s].pc = "status" /\ fs' = Remove(fs, s)
                /\ io'.ev = "fs:return"
                /\ io'.count = 0
                /\ io'.fetched = {}
                /\ blocks' = blocks
       /\ io'.ev \in {"fs:batch", "fs:return"}
          => /\ \A h \in io'.fetched \ io'.failed :
                   \E e \in io'.inserts :
                       /\ e.hash = ChainHash(h)
                       /\ e.ret => HasHash(blocks', e.hash)
             /\ io'.ev = "fs:batch" => Len(fs') = Len(fs)]_vars

C29_Witness ==
    /\ io.ev \in {"fs:batch", "fs:return"}
    /\ io.failed # {}
    /\ \E h \in io.fetched \ io.failed :
          \E e \in io.inserts : e.hash = ChainHash(h) /\ e.new /\ HasHash(blocks, e.hash)

\* C30: the sources a chain-height query asked are, in this order and each at
\* most once, the privileged RPC (asked exactly when the verdict is true), the
\* first public API and the second public API, with none left out before the
\* last one asked; only the last one asked can have answered; and the query
\* reports no height only when all of them were asked and none answered.
C30_StatusSourceOrder ==
    io.statusTried # <<>>
        => LET t       == io.statusTried
               rank(x) == CASE x = "rpc" -> 1 [] x = "insight" -> 2 [] x = "blockbook" -> 3
               first   == IF rpcAvailable = "true" THEN 1 ELSE 2
           IN  /\ \A i \in DOMAIN t : rank(t[i].src) = first + i - 1
               /\ \A i \in DOMAIN t : t[i].ok => i = Len(t)
               /\ io.height # 0 <=> t[Len(t)].ok
               /\ io.height # 0 => io.height = tip
               /\ io.height = 0 => t[Len(t)].src = "blockbook"

C30_Witness ==
    /\ Len(io.statusTried) = 3
    /\ io.statusTried[1].src = "rpc"
    /\ io.statusTried[3].src = "blockbook"
    /\ io.statusTried[3].ok
    /\ io.height = tip

\* C31 as stated: no step sends more than one liveness probe to the privileged
\* source; the checks of one step start with no invalidation tick between them.
C31_OneProbe == [][io'.probes <= 1]_vars

\* C32 as stated: no batch has more than two of its fetches served by the
\* public source.
C32_PublicAtMostTwo ==
    io.ev \in {"bf:batch", "fs:batch", "fs:return"}
        => Cardinality({h \in DOMAIN io.tried :
                           \E i \in DOMAIN io.tried[h] :
                               io.tried[h][i].src = "insight"}) <= SyncBatchPublic

\* C33: every batch of a run is issued by a call that is between two batches
\* (no fetch of it in flight), requests at most the batch size of that run, all
\* of it in one step that ends with the results stored, starts at the cursor
\* of the run and stays within the heights the run has left.
C33_BatchWithinSize ==
    [][/\ (io'.ev \in {"bf:batch", "bf:error"} /\ io'.fetched # {})
          => \E c \in DOMAIN bf :
                /\ bf[c].pc = "loop"
                /\ Cardinality(io'.fetched) <= BackfillBatchSize(bf[c].useRpc)
                /\ bf[c].currentHeight \in io'.fetched
                /\ io'.fetched \subseteq bf[c].targetHeight..bf[c].currentHeight
                /\ \A e \in io'.inserts : e.ret => HasHash(blocks', e.hash)
       /\ (io'.ev \in {"fs:batch", "fs:return"} /\ io'.fetched # {})
          => \E s \in DOMAIN fs :
                /\ fs[s].pc = "loop"
                /\ Cardinality(io'.fetched) <= SyncBatchSize(fs[s].useRpc)
                /\ fs[s].startHeight - fs[s].i \in io'.fetched
                /\ io'.fetched \subseteq
                       (fs[s].startHeight - fs[s].toFetch + 1)..(fs[s].startHeight - fs[s].i)
                /\ \A e \in io'.inserts : e.ret => HasHash(blocks', e.hash)]_vars

C33_Witness ==
    /\ io.ev = "bf:batch"
    /\ Cardinality(io.fetched) = BackfillBatchPublic
    /\ \E c \in DOMAIN bf :
          /\ bf[c].pc = "loop"
          /\ ~bf[c].useRpc
          /\ bf[c].currentHeight >= bf[c].targetHeight
          /\ bf[c].currentHeight \notin io.fetched
          /\ bf[c].currentHeight + 1 \in io.fetched
          /\ bf[c].currentHeight + BackfillBatchPublic \in io.fetched

\* C34 as stated: no height requested by a syncNewCoreBlocks call is a height
\* that a backfill run in progress has requested, and no height requested by a
\* backfill run is one that a syncNewCoreBlocks call in progress has requested.
C34_NeverOverlap ==
    [][/\ io'.ev \in {"fs:batch", "fs:return"}
          => \A c \in DOMAIN bf :
                bf[c].pc = "loop"
                => io'.fetched \cap ((bf[c].currentHeight + 1)..(bf[c].oldestCached - 1)) = {}
       /\ io'.ev = "bf:batch"
          => \A s \in DOMAIN fs : io'.fetched \cap fs[s].asked = {}]_vars

\* C34, for the syncNewCoreBlocks calls that found the cache non-empty: such a
\* call only requests heights above the cached maximum it read, none of them a
\* height that a backfill run in progress has requested; a backfill run only
\* requests heights from its target up to the height below the oldest cached
\* one at its start, none of them a height that such a call in progress has
\* requested.
C34_NoOverlapNonEmpty ==
    [][/\ \A s \in DOMAIN fs :
             (/\ io'.ev \in {"fs:batch", "fs:return"}
              /\ io'.fetched # {}
              /\ fs[s].pc = "loop"
              /\ fs[s].highestCached # 0
              /\ \/ fs' = Remove(fs, s)
                 \/ Len(fs') = Len(fs) /\ fs'[s] # fs[s])
             => /\ \A h \in io'.fetched : h > fs[s].highestCached
                /\ \A c \in DOMAIN bf :
                      bf[c].pc = "loop"
                      => io'.fetched
                            \cap ((bf[c].currentHeight + 1)..(bf[c].oldestCached - 1)) = {}
       /\ io'.ev = "bf:batch"
          => \A c \in DOMAIN bf :
                bf[c].pc = "loop"
                => /\ io'.fetched \subseteq bf[c].targetHeight..(bf[c].oldestCached - 1)
                   /\ \A s \in DOMAIN fs :
                         fs[s].highestCached # 0 => io'.fetched \cap fs[s].asked = {}]_vars

C34_Witness ==
    /\ io.ev = "bf:batch"
    /\ io.fetched # {}
    /\ \E s \in DOMAIN fs : fs[s].highestCached # 0 /\ fs[s].asked # {}

\* C35 as stated, for the first visit: a syncAllPlatformEpochs call whose
\* status query answered with the current epoch number, 0 included, goes on to
\* ask for that epoch.
C35_VisitsFromCurrent ==
    [][\A k \in DOMAIN es :
          (es[k].pc = "status" /\ io'.ev = "es:return" /\ es' = Remove(es, k))
          => io'.epoch < 0]_vars

\* C36 as stated: an iteration that is followed by another epoch request ends
\* with the delay of 200 ms.
C36_DelayBetweenRequests ==
    [][\A k \in DOMAIN es :
          (/\ es[k].pc = "loop"
           /\ io'.ev \in {"es:noEpoch", "es:upsert", "es:upsertFailed"}
           /\ Len(es') = Len(es)
           /\ es'[k] # es[k]
           /\ es'[k].epochNum >= 0)
          => io'.delay = EpochDelay]_vars

\* C37 as stated, for the order: the sources a masternode-count query asks are
\* the privileged RPC, the public API, the persisted checkpoint and the default,
\* each after the ones before it in this order.
C37_RpcBeforePublic ==
    io.ev = "mn:return"
        => LET t       == io.sources
               rank(x) == CASE x = "rpc" -> 1 [] x = "public" -> 2
                            [] x = "saved" -> 3 [] x = "default" -> 4
           IN  \A i, j \in DOMAIN t : i < j => rank(t[i]) < rank(t[j])

\* C38 as stated: in every state the backfill progress has
\* 0 <= totalDone <= totalNeeded and targetHeight <= oldestHeight, and while a
\* run goes on totalDone never decreases and oldestHeight never increases.
C38_ProgressWithinBounds ==
    /\ 0 <= backfillProgress.totalDone
    /\ backfillProgress.totalDone <= backfillProgress.totalNeeded
    /\ backfillProgress.targetHeight <= backfillProgress.oldestHeight

\* C39: a startCoreBackfill call that reads the minimum height of an empty
\* block cache returns in that step: nothing is fetched, no checkpoint is
\* written, the backfill progress (a status left by an earlier run included) is
\* what it was, the cache is still empty and the running flag is false.
C39_EmptyCacheReturns ==
    [][\A c \in DOMAIN bf :
          (/\ blocks = {}
           /\ bf[c].pc = "readMin"
           /\ bf' # bf
           /\ Len(bf') <= Len(bf)
           /\ io'.ev \notin {"bf:error", "restart"})
              => /\ io'.ev = "bf:empty"
                 /\ io'.fetched = {}
                 /\ io'.tried = <<>>
                 /\ io'.probes = 0
                 /\ syncState' = syncState
                 /\ backfillProgress' = backfillProgress
                 /\ blocks' = {}
                 /\ backfillRunning' = FALSE
                 /\ Len(bf') = Len(bf) - 1]_vars

C39_Witness ==
    /\ io.ev = "bf:empty"
    /\ backfillProgress.status # "idle"

====
